---- MODULE Spec2Model ----
(***************************************************************************)
(* Model of the BOLT-12 offer-to-invoice exchange of m-schmoock/lightning: *)
(* the fetchinvoice plugin (src/plugins/decommission.c, lines 217-1050),   *)
(* lightningd's offer commands (src/lightningd/offer.c) and the            *)
(* decommission plugin (src/plugins/decommission.c, lines 1-215).          *)
(*                                                                         *)
(* An optional C field (a pointer that may be NULL) is a set with at most  *)
(* one element: NULL is the empty set, a set field holds {value}.          *)
(***************************************************************************)
EXTENDS Integers, Sequences, FiniteSets, TLC

\* ------------------------------------------------------------------ bounds

\* Number of fetchinvoice commands the concurrent exchange model runs.
MaxCmds == 2

\* Number of fetchinvoice commands of the reply-validation model.
ReplyCmds == 1

\* Largest value of the unsigned integer type standing for u64.
MaxU64 == 15

\* ------------------------------------------------------- optional values

NULL == {}

Some(x) == {x}

Val(s) == CHOOSE x \in s : TRUE

\* ----------------------------------------------------------- error codes

JSONRPC2_INVALID_PARAMS == "JSONRPC2_INVALID_PARAMS"
LIGHTNINGD == "LIGHTNINGD"
PAY_ROUTE_NOT_FOUND == "PAY_ROUTE_NOT_FOUND"
OFFER_EXPIRED == "OFFER_EXPIRED"
OFFER_ROUTE_NOT_FOUND == "OFFER_ROUTE_NOT_FOUND"
OFFER_BAD_INVREQ_REPLY == "OFFER_BAD_INVREQ_REPLY"

\* --------------------------------------------------------------- records

\* struct tlv_offer, as decoded by param_offer. recurrence is NULL or a
\* record of time_unit (0 seconds, 1 days) and period; start_any_period is
\* NULL without a recurrence_base.
Offer(node_id, description, amount, currency, quantity_min, quantity_max, recurrence, start_any_period, recurrence_limit, absolute_expiry, send_invoice) ==
    [node_id |-> node_id, description |-> description, amount |-> amount,
     currency |-> currency, quantity_min |-> quantity_min,
     quantity_max |-> quantity_max, recurrence |-> recurrence,
     start_any_period |-> start_any_period,
     recurrence_limit |-> recurrence_limit,
     absolute_expiry |-> absolute_expiry, send_invoice |-> send_invoice,
     vendor |-> NULL]

\* struct tlv_invoice_request with every field unset (tlv_invoice_request_new).
tlv_invoice_request_new ==
    [offer_id |-> NULL, amount |-> NULL, quantity |-> NULL,
     recurrence_counter |-> NULL, recurrence_start |-> NULL,
     payer_key |-> NULL, payer_info |-> NULL, recurrence_signature |-> NULL]

\* The parameters of one fetchinvoice call.
Params(msatoshi, quantity, recurrence_counter, recurrence_start, rec_label) ==
    [msatoshi |-> msatoshi, quantity |-> quantity,
     recurrence_counter |-> recurrence_counter,
     recurrence_start |-> recurrence_start, rec_label |-> rec_label]

\* The result a command is completed with: command_finished (kind "success")
\* or command_fail / command_done_err / forward_error (kind "error").
Result(kind, code, msg, invoice, details) ==
    [kind |-> kind, code |-> code, msg |-> msg, invoice |-> invoice,
     details |-> details, changes |-> NULL, next_period |-> NULL]

Failure(code, msg) == Result("error", code, msg, NULL, NULL)

\* struct tlv_invoice as the reply carries it on the wire. wire_ok is whether
\* fromwire_invoice parses the bytes; signature is NULL, or {k} for a
\* signature that verifies under key k only (0 is no node's key).
Invoice(wire_ok, node_id, signature, amount, offer_id, quantity, recurrence_counter, recurrence_start, payer_key, payer_info, recurrence_basetime) ==
    [wire_ok |-> wire_ok, node_id |-> node_id, signature |-> signature,
     amount |-> amount, offer_id |-> offer_id, quantity |-> quantity,
     recurrence_counter |-> recurrence_counter,
     recurrence_start |-> recurrence_start, payer_key |-> payer_key,
     payer_info |-> payer_info, recurrence_basetime |-> recurrence_basetime,
     description |-> NULL, vendor |-> NULL]

\* The invoice_error field of a reply: the hex string and, when
\* fromwire_invoice_error parses it, its fields.
InvoiceError(hex, decodes, erroneous_field, suggested_value, error) ==
    [hex |-> hex, decodes |-> decodes, erroneous_field |-> erroneous_field,
     suggested_value |-> suggested_value, error |-> error]

\* The onion_message object handed to the onion_message_blinded hook.
OnionMessage(blinding_in, invoice_error, invoice) ==
    [blinding_in |-> blinding_in, invoice_error |-> invoice_error,
     invoice |-> invoice]

\* struct sent.
Sent(reply_blinding, cmd, offer, invreq) ==
    [reply_blinding |-> reply_blinding, cmd |-> cmd, offer |-> offer,
     invreq |-> invreq]

\* ------------------------------------------------------ the reply checks

\* list_for_each over sent_list: the first entry whose reply_blinding is
\* the given key, or NULL.
RECURSIVE find_sent_from(_, _, _)
find_sent_from(list, blinding, i) ==
    IF i > Len(list) THEN NULL
    ELSE IF list[i].reply_blinding = blinding THEN Some(list[i])
    ELSE find_sent_from(list, blinding, i + 1)

find_sent_nokey(list, blinding) ==
    IF Len(list) = 0 THEN NULL ELSE Some(list[1])

find_sent(list, blinding) ==
    find_sent_from(list, blinding, 1)

field_diff_sameset(a, b, fieldname) ==
    IF (a = NULL) # (b = NULL) THEN fieldname ELSE ""

\* field_diff_: the field's name when one side is set and the other is not,
\* or both are set and their bytes differ; "" (C's NULL) when they agree.
field_diff_(a, b, fieldname) ==
    IF (a = NULL) # (b = NULL) THEN fieldname
    ELSE IF a # b THEN fieldname
    ELSE ""

mul_overflows_u64(a, b) ==
    a * b > MaxU64

\* The checks of recv_onion_message on a decoded invoice that run after the
\* signature check, in the code's order; "" when all pass.
badfield_after_sig(sent, inv) ==
    IF inv.amount = NULL THEN "amount"
    ELSE IF field_diff_(sent.invreq.offer_id, inv.offer_id, "offer_id") # ""
        THEN "offer_id"
    ELSE IF field_diff_(sent.invreq.quantity, inv.quantity, "quantity") # ""
        THEN "quantity"
    ELSE IF field_diff_(sent.invreq.recurrence_counter, inv.recurrence_counter, "recurrence_counter") # ""
        THEN "recurrence_counter"
    ELSE IF field_diff_(sent.invreq.recurrence_start, inv.recurrence_start, "recurrence_start") # ""
        THEN "recurrence_start"
    ELSE IF field_diff_(sent.invreq.payer_key, inv.payer_key, "payer_key") # ""
        THEN "payer_key"
    ELSE IF field_diff_(sent.invreq.payer_info, inv.payer_info, "payer_info") # ""
        THEN "payer_info"
    ELSE IF /\ sent.offer.amount # NULL
            /\ sent.offer.currency = NULL
            /\ sent.invreq.quantity # NULL
            /\ mul_overflows_u64(Val(sent.offer.amount), Val(sent.invreq.quantity))
        THEN "quantity overflow"
    ELSE IF sent.invreq.recurrence_counter # NULL /\ inv.recurrence_basetime = NULL
        THEN "recurrence_basetime"
    ELSE ""

badfield_nosig(sent, inv) ==
    IF ~inv.wire_ok THEN "invoice"
    ELSE IF sent.offer.node_id # inv.node_id THEN "node_id"
    ELSE badfield_after_sig(sent, inv)

\* The badfield that recv_onion_message jumps to badinv with: fromwire_invoice,
\* node_id (pubkey32_eq), the signature (set, and verifying under the
\* invoice's node_id), then the remaining checks; "" when the invoice passes.
badfield(sent, inv) ==
    IF ~inv.wire_ok THEN "invoice"
    ELSE IF sent.offer.node_id # inv.node_id THEN "node_id"
    ELSE IF inv.signature = NULL \/ inv.signature # inv.node_id THEN "signature"
    ELSE badfield_after_sig(sent, inv)

description_is_appended_first(a, b) ==
    IF a = NULL \/ b = NULL THEN FALSE
    ELSE IF Len(Val(b)) < Len(Val(a)) THEN FALSE
    ELSE SubSeq(Val(b), 1, 1) = SubSeq(Val(a), 1, 1)

\* description_is_appended: b is a with something appended.
description_is_appended(a, b) ==
    IF a = NULL \/ b = NULL THEN FALSE
    ELSE IF Len(Val(b)) < Len(Val(a)) THEN FALSE
    ELSE SubSeq(Val(b), 1, Len(Val(a))) = Val(a)

expected_amount_noquantity(sent) ==
    IF sent.offer.amount # NULL /\ sent.offer.currency = NULL
    THEN sent.offer.amount
    ELSE NULL

\* expected_amount of recv_onion_message, for a reply that passed the
\* overflow check: the offer's amount, times the request's quantity when the
\* request has one; NULL when the offer has no amount or has a currency.
expected_amount(sent) ==
    IF sent.offer.amount # NULL /\ sent.offer.currency = NULL
    THEN IF sent.invreq.quantity # NULL
         THEN Some(Val(sent.offer.amount) * Val(sent.invreq.quantity))
         ELSE sent.offer.amount
    ELSE NULL

changes_msat_onlydiff(sent, inv) ==
    IF expected_amount(sent) # NULL /\ inv.amount # expected_amount(sent)
    THEN inv.amount
    ELSE NULL

\* The msat key of changes: the invoice's amount, unless it is exactly the
\* expected amount.
changes_msat(sent, inv) ==
    IF expected_amount(sent) = NULL \/ Val(inv.amount) # Val(expected_amount(sent))
    THEN inv.amount
    ELSE NULL

\* The changes object of the success result; a key that is not emitted is
\* NULL.
changes(sent, inv) ==
    LET od == sent.offer.description
        id == inv.description
        ddiff == field_diff_(od, id, "description") # ""
        appended == ddiff /\ description_is_appended(od, id)
        vdiff == field_diff_(sent.offer.vendor, inv.vendor, "vendor") # ""
    IN [description_appended |-> IF appended THEN Some(SubSeq(Val(id), Len(Val(od)) + 1, Len(Val(id)))) ELSE NULL,
        description_removed |-> IF ddiff /\ ~appended /\ id = NULL THEN od ELSE NULL,
        description |-> IF ddiff /\ ~appended /\ id # NULL THEN id ELSE NULL,
        vendor_removed |-> IF vdiff /\ inv.vendor = NULL THEN sent.offer.vendor ELSE NULL,
        vendor |-> IF vdiff /\ inv.vendor # NULL THEN inv.vendor ELSE NULL,
        msat |-> changes_msat(sent, inv)]

\* The length in seconds of one period of a recurrence in seconds or days.
period_seconds(recur) ==
    IF recur.time_unit = 0 THEN recur.period ELSE recur.period * 86400

\* offer_period_start: the start of period n of a recurrence whose period 0
\* starts at basetime.
offer_period_start(basetime, n, recur) ==
    basetime + period_seconds(recur) * n

next_period_nolimit(sent, inv) ==
    LET next_counter == Val(sent.invreq.recurrence_counter) + 1
        next_period_idx == IF sent.invreq.recurrence_start # NULL
                           THEN Val(sent.invreq.recurrence_start) + next_counter
                           ELSE next_counter
    IN IF sent.offer.recurrence = NULL THEN NULL
       ELSE Some([counter |-> next_counter,
                  starttime |-> offer_period_start(Val(inv.recurrence_basetime), next_period_idx, Val(sent.offer.recurrence)),
                  endtime |-> offer_period_start(Val(inv.recurrence_basetime), next_period_idx + 1, Val(sent.offer.recurrence)) - 1])

next_period_wrongend(sent, inv) ==
    LET next_counter == Val(sent.invreq.recurrence_counter) + 1
        next_period_idx == IF sent.invreq.recurrence_start # NULL
                           THEN Val(sent.invreq.recurrence_start) + next_counter
                           ELSE next_counter
    IN IF sent.offer.recurrence = NULL THEN NULL
       ELSE IF sent.offer.recurrence_limit # NULL /\ next_period_idx > Val(sent.offer.recurrence_limit) THEN NULL
       ELSE Some([counter |-> next_counter,
                  starttime |-> offer_period_start(Val(inv.recurrence_basetime), next_period_idx, Val(sent.offer.recurrence)),
                  endtime |-> offer_period_start(Val(inv.recurrence_basetime), next_period_idx + 1, Val(sent.offer.recurrence))])

next_period_samecounter(sent, inv) ==
    LET next_counter == Val(sent.invreq.recurrence_counter)
        next_period_idx == IF sent.invreq.recurrence_start # NULL
                           THEN Val(sent.invreq.recurrence_start) + next_counter
                           ELSE next_counter
    IN IF sent.offer.recurrence = NULL THEN NULL
       ELSE IF sent.offer.recurrence_limit # NULL /\ next_period_idx > Val(sent.offer.recurrence_limit) THEN NULL
       ELSE Some([counter |-> next_counter,
                  starttime |-> offer_period_start(Val(inv.recurrence_basetime), next_period_idx, Val(sent.offer.recurrence)),
                  endtime |-> offer_period_start(Val(inv.recurrence_basetime), next_period_idx + 1, Val(sent.offer.recurrence)) - 1])

\* The next_period object of the success result, or NULL when there is
\* none: counter, starttime and endtime (the paywindow keys, computed by
\* offer_period_paywindow, are left out).
next_period(sent, inv) ==
    LET next_counter == Val(sent.invreq.recurrence_counter) + 1
        next_period_idx == IF sent.invreq.recurrence_start # NULL
                           THEN Val(sent.invreq.recurrence_start) + next_counter
                           ELSE next_counter
    IN IF sent.offer.recurrence = NULL THEN NULL
       ELSE IF sent.offer.recurrence_limit # NULL /\ next_period_idx > Val(sent.offer.recurrence_limit) THEN NULL
       ELSE Some([counter |-> next_counter,
                  starttime |-> offer_period_start(Val(inv.recurrence_basetime), next_period_idx, Val(sent.offer.recurrence)),
                  endtime |-> offer_period_start(Val(inv.recurrence_basetime), next_period_idx + 1, Val(sent.offer.recurrence)) - 1])

\* The result command_finished completes the command with: the invoice, the
\* changes and the next period.
reply_success(sent, inv) ==
    [Result("success", "", "", Some(inv), NULL) EXCEPT
        !.changes = Some(changes(sent, inv)),
        !.next_period = next_period(sent, inv)]

\* The details object of the invoice_error failure.
invoice_error_details(err) ==
    IF ~err.decodes
    THEN [invoice_error_hex |-> Some(err.hex), erroneous_field |-> NULL,
          suggested_value |-> NULL, error |-> NULL]
    ELSE [invoice_error_hex |-> NULL, erroneous_field |-> err.erroneous_field,
          suggested_value |-> err.suggested_value,
          error |-> Some(IF err.error = NULL THEN "" ELSE Val(err.error))]

reply_result_invoice_first(sent, om) ==
    IF om.invoice # NULL /\ badfield(sent, Val(om.invoice)) = ""
    THEN reply_success(sent, Val(om.invoice))
    ELSE IF om.invoice_error # NULL
    THEN Result("error", OFFER_BAD_INVREQ_REPLY, "Remote node sent failure message", NULL, Some(invoice_error_details(Val(om.invoice_error))))
    ELSE IF om.invoice = NULL
    THEN Failure(OFFER_BAD_INVREQ_REPLY, "Neither invoice nor invoice_request_failed in reply")
    ELSE Result("error", OFFER_BAD_INVREQ_REPLY, badfield(sent, Val(om.invoice)), NULL, NULL)

\* What recv_onion_message completes the matched entry's command with:
\* invoice_error first, then a missing invoice, then the invoice's checks.
\* A badinv failure carries the badfield as its message ("Incorrect %s field").
reply_result(sent, om) ==
    IF om.invoice_error # NULL
    THEN Result("error", OFFER_BAD_INVREQ_REPLY, "Remote node sent failure message", NULL, Some(invoice_error_details(Val(om.invoice_error))))
    ELSE IF om.invoice = NULL
    THEN Failure(OFFER_BAD_INVREQ_REPLY, "Neither invoice nor invoice_request_failed in reply")
    ELSE IF badfield(sent, Val(om.invoice)) # ""
    THEN Result("error", OFFER_BAD_INVREQ_REPLY, badfield(sent, Val(om.invoice)), NULL, NULL)
    ELSE reply_success(sent, Val(om.invoice))

\* ------------------------------------------------- building the request

\* The offers the models draw from; an offer's place in this table stands
\* for the merkle root of its fields.
OfferPlain == Offer(Some(1), Some("coffee"), NULL, NULL, NULL, NULL, NULL, NULL, NULL, NULL, FALSE)

OfferRecurring == Offer(Some(1), Some("coffee"), Some(MaxU64 - 7), NULL, NULL, Some(2), Some([time_unit |-> 1, period |-> 30]), NULL, NULL, NULL, FALSE)

OfferQuantity == Offer(Some(1), Some("coffee"), Some(2), NULL, Some(1), NULL, NULL, NULL, NULL, NULL, FALSE)

\* A fixed amount, no quantity.
OfferFixed == Offer(Some(1), Some("coffee"), Some(2), NULL, NULL, NULL, NULL, NULL, NULL, NULL, FALSE)

\* An amount in a currency.
OfferCurrency == Offer(Some(1), Some("coffee"), Some(2), Some("USD"), NULL, NULL, NULL, NULL, NULL, NULL, FALSE)

\* quantity_min 0: a quantity of 0 is in range.
OfferQuantityFrom0 == Offer(Some(1), Some("coffee"), Some(2), NULL, Some(0), Some(3), NULL, NULL, NULL, NULL, FALSE)

\* A period of 3 seconds, start_any_period 1, recurrence_limit 3.
OfferLimited == Offer(Some(1), Some("coffee"), NULL, NULL, NULL, NULL, Some([time_unit |-> 0, period |-> 3]), Some(1), Some(3), NULL, FALSE)

\* A recurrence_base with start_any_period 0.
OfferBaseZero == Offer(Some(1), Some("coffee"), Some(2), NULL, NULL, NULL, Some([time_unit |-> 0, period |-> 3]), Some(0), NULL, NULL, FALSE)

\* Expires at time 1.
OfferExpiring == Offer(Some(1), Some("coffee"), Some(2), NULL, NULL, NULL, NULL, NULL, NULL, Some(1), FALSE)

\* send_invoice: the offer asks to be sent an invoice.
OfferSendInvoice == Offer(Some(1), Some("refund"), Some(2), NULL, NULL, NULL, NULL, NULL, NULL, NULL, TRUE)

\* send_invoice, and expires at time 1.
OfferSendInvoiceExpiring == Offer(Some(1), Some("refund"), Some(2), NULL, NULL, NULL, NULL, NULL, NULL, Some(1), TRUE)

\* No description, and expires at time 1: param_offer refuses it.
OfferNoDescription == Offer(Some(1), NULL, Some(2), NULL, NULL, NULL, NULL, NULL, NULL, Some(1), FALSE)

OfferTable == << OfferPlain, OfferRecurring, OfferQuantity, OfferFixed, OfferCurrency, OfferQuantityFrom0, OfferLimited, OfferBaseZero, OfferExpiring, OfferSendInvoice, OfferSendInvoiceExpiring, OfferNoDescription >>

merkle_tlv(offer) ==
    CHOOSE i \in 1..Len(OfferTable) : OfferTable[i] = offer

send_invoice_failure_none(offer) ==
    NULL

\* json_fetchinvoice refuses an offer that sets send_invoice.
send_invoice_failure(offer) ==
    IF offer.send_invoice
        THEN Some(Failure(JSONRPC2_INVALID_PARAMS, "Offer wants an invoice, not invoice_request"))
        ELSE NULL

offer_expired_at(offer, now) ==
    offer.absolute_expiry # NULL /\ now >= Val(offer.absolute_expiry)

\* The expiry test of json_fetchinvoice: the current time is after the
\* offer's absolute_expiry.
offer_expired(offer, now) ==
    offer.absolute_expiry # NULL /\ now > Val(offer.absolute_expiry)

\* param_offer and the parameter rules of json_fetchinvoice, in the code's
\* order: the failure the command is completed with, or NULL to go on.
fetchinvoice_failure(offer, p, now) ==
    IF offer.node_id = NULL
        THEN Some(Failure(JSONRPC2_INVALID_PARAMS, "Offer does not contain a node_id"))
    ELSE IF offer.description = NULL
        THEN Some(Failure(JSONRPC2_INVALID_PARAMS, "Offer does not contain a description"))
    ELSE IF send_invoice_failure(offer) # NULL
        THEN send_invoice_failure(offer)
    ELSE IF offer_expired(offer, now)
        THEN Some(Failure(OFFER_EXPIRED, "Offer expired"))
    ELSE IF offer.amount # NULL /\ p.msatoshi # NULL
        THEN Some(Failure(JSONRPC2_INVALID_PARAMS, "msatoshi parameter unnecessary"))
    ELSE IF offer.amount = NULL /\ p.msatoshi = NULL
        THEN Some(Failure(JSONRPC2_INVALID_PARAMS, "msatoshi parameter required"))
    ELSE IF (offer.quantity_min # NULL \/ offer.quantity_max # NULL) /\ p.quantity = NULL
        THEN Some(Failure(JSONRPC2_INVALID_PARAMS, "quantity parameter required"))
    ELSE IF offer.quantity_min # NULL /\ Val(p.quantity) < Val(offer.quantity_min)
        THEN Some(Failure(JSONRPC2_INVALID_PARAMS, "quantity must be >="))
    ELSE IF offer.quantity_max # NULL /\ Val(p.quantity) > Val(offer.quantity_max)
        THEN Some(Failure(JSONRPC2_INVALID_PARAMS, "quantity must be <="))
    ELSE IF offer.quantity_min = NULL /\ offer.quantity_max = NULL /\ p.quantity # NULL
        THEN Some(Failure(JSONRPC2_INVALID_PARAMS, "quantity parameter unnecessary"))
    ELSE IF offer.recurrence # NULL /\ p.recurrence_counter = NULL
        THEN Some(Failure(JSONRPC2_INVALID_PARAMS, "needs recurrence_counter"))
    ELSE IF offer.recurrence # NULL /\ offer.start_any_period \notin {NULL, Some(0)} /\ p.recurrence_start = NULL
        THEN Some(Failure(JSONRPC2_INVALID_PARAMS, "needs recurrence_start"))
    ELSE IF offer.recurrence # NULL /\ offer.start_any_period \in {NULL, Some(0)} /\ p.recurrence_start # NULL
        THEN Some(Failure(JSONRPC2_INVALID_PARAMS, "unnecessary recurrence_start"))
    ELSE IF offer.recurrence # NULL /\ p.rec_label = NULL
        THEN Some(Failure(JSONRPC2_INVALID_PARAMS, "needs recurrence_label"))
    ELSE IF offer.recurrence = NULL /\ p.recurrence_counter # NULL
        THEN Some(Failure(JSONRPC2_INVALID_PARAMS, "unnecessary recurrence_counter"))
    ELSE IF offer.recurrence = NULL /\ p.recurrence_start # NULL
        THEN Some(Failure(JSONRPC2_INVALID_PARAMS, "unnecessary recurrence_start"))
    ELSE NULL

fetchinvoice_invreq_noamount(offer, p) ==
    [tlv_invoice_request_new EXCEPT
        !.offer_id = Some(merkle_tlv(offer)),
        !.quantity = p.quantity,
        !.recurrence_counter = p.recurrence_counter,
        !.recurrence_start = p.recurrence_start]

fetchinvoice_invreq_nostart(offer, p) ==
    [tlv_invoice_request_new EXCEPT
        !.offer_id = Some(merkle_tlv(offer)),
        !.quantity = p.quantity,
        !.recurrence_counter = p.recurrence_counter,
        !.amount = IF offer.amount = NULL THEN p.msatoshi ELSE NULL]

\* The invoice_request json_fetchinvoice hands to createinvoicerequest.
fetchinvoice_invreq(offer, p) ==
    [tlv_invoice_request_new EXCEPT
        !.offer_id = Some(merkle_tlv(offer)),
        !.quantity = p.quantity,
        !.recurrence_counter = p.recurrence_counter,
        !.recurrence_start = p.recurrence_start,
        !.amount = IF offer.amount = NULL THEN p.msatoshi ELSE NULL]

RECURSIVE prev_payment_loop_anystart(_, _, _, _, _)
prev_payment_loop_anystart(pays, i, label, invreq, acc) ==
    IF i > Len(pays) THEN acc
    ELSE LET pay == pays[i]
             skip == \/ pay.label # Some(label)
                     \/ pay.inv = NULL
                     \/ Val(pay.inv).offer_id # invreq.offer_id
                     \/ Val(pay.inv).recurrence_counter = NULL
             inv == Val(pay.inv)
         IN IF skip THEN prev_payment_loop_anystart(pays, i + 1, label, invreq, acc)
            ELSE prev_payment_loop_anystart(pays, i + 1, label, invreq,
                    [fail |-> NULL,
                     prev_paid |-> \/ acc.prev_paid
                                   \/ /\ Val(inv.recurrence_counter) = Val(invreq.recurrence_counter) - 1
                                      /\ pay.status = "complete",
                     payer_info |-> IF inv.payer_info # NULL THEN inv.payer_info ELSE acc.payer_info])

\* One pass of prev_payment's loop over payments[i..]: acc holds the failure
\* returned from inside the loop (if any), prev_paid and invreq->payer_info.
RECURSIVE prev_payment_loop(_, _, _, _, _)
prev_payment_loop(pays, i, label, invreq, acc) ==
    IF i > Len(pays) \/ acc.fail # NULL THEN acc
    ELSE LET pay == pays[i]
             skip == \/ pay.label # Some(label)
                     \/ pay.inv = NULL
                     \/ Val(pay.inv).offer_id # invreq.offer_id
                     \/ Val(pay.inv).recurrence_counter = NULL
             inv == Val(pay.inv)
         IN IF skip THEN prev_payment_loop(pays, i + 1, label, invreq, acc)
            ELSE IF invreq.recurrence_start # NULL /\ inv.recurrence_start = NULL
                THEN [acc EXCEPT !.fail = Some(Failure(JSONRPC2_INVALID_PARAMS, "unexpected recurrence_start"))]
            ELSE IF invreq.recurrence_start # NULL /\ inv.recurrence_start # invreq.recurrence_start
                THEN [acc EXCEPT !.fail = Some(Failure(JSONRPC2_INVALID_PARAMS, "recurrence_start was previously"))]
            ELSE IF invreq.recurrence_start = NULL /\ inv.recurrence_start # NULL
                THEN [acc EXCEPT !.fail = Some(Failure(JSONRPC2_INVALID_PARAMS, "missing recurrence_start"))]
            ELSE prev_payment_loop(pays, i + 1, label, invreq,
                    [fail |-> NULL,
                     prev_paid |-> \/ acc.prev_paid
                                   \/ /\ Val(inv.recurrence_counter) = Val(invreq.recurrence_counter) - 1
                                      /\ pay.status = "complete",
                     payer_info |-> IF inv.payer_info # NULL THEN inv.payer_info ELSE acc.payer_info])

prev_payment_unpaid(pays, label, invreq) ==
    LET acc == prev_payment_loop(pays, 1, label, invreq, [fail |-> NULL, prev_paid |-> FALSE, payer_info |-> NULL])
    IN IF acc.fail # NULL THEN acc
       ELSE IF acc.payer_info = NULL
           THEN [acc EXCEPT !.fail = Some(Failure(JSONRPC2_INVALID_PARAMS, "No previous payment attempted for this label and offer"))]
       ELSE acc

\* prev_payment: the failure, or NULL with the payer_info it filled in.
prev_payment(pays, label, invreq) ==
    LET acc == prev_payment_loop(pays, 1, label, invreq, [fail |-> NULL, prev_paid |-> FALSE, payer_info |-> NULL])
    IN IF acc.fail # NULL THEN acc
       ELSE IF acc.payer_info = NULL
           THEN [acc EXCEPT !.fail = Some(Failure(JSONRPC2_INVALID_PARAMS, "No previous payment attempted for this label and offer"))]
       ELSE IF ~acc.prev_paid
           THEN [acc EXCEPT !.fail = Some(Failure(JSONRPC2_INVALID_PARAMS, "previous invoice has not been paid"))]
       ELSE acc

\* json_createinvoicerequest on a decoded request and label: [fail, invreq].
\* random is the 16 bytes randombytes_buf returns; the payer_key is the base
\* key tweaked by payer_info. recurrence_signature is written only for a
\* request with recurrence_counter and is otherwise left as decoded.
json_createinvoicerequest(pays, invreq, label, random) ==
    LET prev == IF invreq.recurrence_counter # NULL /\ label # NULL /\ Val(invreq.recurrence_counter) # 0
                THEN prev_payment(pays, Val(label), invreq)
                ELSE [fail |-> NULL, prev_paid |-> FALSE, payer_info |-> NULL]
        info == IF prev.payer_info = NULL THEN Some(random) ELSE prev.payer_info
    IN IF invreq.payer_info # NULL
           THEN [fail |-> Some(Failure(JSONRPC2_INVALID_PARAMS, "must not have payer_info")), invreq |-> invreq]
       ELSE IF invreq.payer_key # NULL
           THEN [fail |-> Some(Failure(JSONRPC2_INVALID_PARAMS, "must not have payer_key")), invreq |-> invreq]
       ELSE IF invreq.recurrence_counter # NULL /\ label = NULL
           THEN [fail |-> Some(Failure(JSONRPC2_INVALID_PARAMS, "Need payment label for recurring payments")), invreq |-> invreq]
       ELSE IF prev.fail # NULL
           THEN [fail |-> prev.fail, invreq |-> invreq]
       ELSE [fail |-> NULL,
             invreq |-> [invreq EXCEPT
                 !.payer_info = info,
                 !.payer_key = Some(<<"bolt12_base", Val(info)>>),
                 !.recurrence_signature = IF invreq.recurrence_counter # NULL THEN Some("recurrence_signature") ELSE @]]

\* ------------------------------------------------- the wallet's offers

OFFER_ALREADY_EXISTS == "OFFER_ALREADY_EXISTS"
OFFER_ALREADY_DISABLED == "OFFER_ALREADY_DISABLED"

\* enum offer_status.
OFFER_SINGLE_USE == "single_use"
OFFER_MULTIPLE_USE == "multi_use"
OFFER_USED == "used"
OFFER_SINGLE_DISABLED == "single_disabled"
OFFER_MULTIPLE_DISABLED == "multi_disabled"

OfferStatuses == {OFFER_SINGLE_USE, OFFER_MULTIPLE_USE, OFFER_USED, OFFER_SINGLE_DISABLED, OFFER_MULTIPLE_DISABLED}

\* An offer is active while it can still be used.
offer_status_active(status) ==
    status \in {OFFER_SINGLE_USE, OFFER_MULTIPLE_USE}

offer_status_single(status) ==
    status \in {OFFER_SINGLE_USE, OFFER_USED, OFFER_SINGLE_DISABLED}

\* The offer_ids: the merkle roots of the offers of OfferTable.
OfferIds == 1..Len(OfferTable)

\* offer_encode: the bolt12 string of the offer once the node has signed it.
offer_encode(offer) ==
    << "lno", offer, "signature" >>

\* A row of the wallet's offers table.
OfferRecord(bolt12, label, status) ==
    [bolt12 |-> bolt12, label |-> label, status |-> status]

\* The empty offers table: no offer_id has a row.
NoOffers ==
    [id \in OfferIds |-> NULL]

\* wallet_offer_find: the row of offer_id, NULL if it has none.
wallet_offer_find(tbl, offer_id) ==
    IF offer_id \in DOMAIN tbl THEN tbl[offer_id] ELSE NULL

\* wallet_offer_create: the table with the new row, or NULL (false) if the
\* offer_id already has one.
wallet_offer_create(tbl, offer_id, bolt12, label, status) ==
    IF wallet_offer_find(tbl, offer_id) # NULL
        THEN NULL
        ELSE Some([tbl EXCEPT ![offer_id] = Some(OfferRecord(bolt12, label, status))])

\* wallet_offer_disable: the status an active offer gets when disabled.
wallet_offer_disable(status) ==
    IF status = OFFER_SINGLE_USE THEN OFFER_SINGLE_DISABLED ELSE OFFER_MULTIPLE_DISABLED

\* json_populate_offer: what the offer commands report about an offer.
json_populate_offer(offer_id, b12, label, status) ==
    [offer_id |-> offer_id, active |-> offer_status_active(status),
     single_use |-> offer_status_single(status), bolt12 |-> b12,
     used |-> (status = OFFER_USED), label |-> label]

\* The result of an offer command that succeeds: the offers it reports.
OfferResult(list) ==
    [kind |-> "success", offers |-> list]

\* What an offer command was called with.
OfferCall(offer_id, offer, signed, label, flag) ==
    [offer_id |-> offer_id, offer |-> offer, signed |-> signed, label |-> label, flag |-> flag]

\* ------------------------------------------- the decommission plugin

\* enum COMMISSION_STATE.
COMMISSIONED == "COMMISSIONED"
DECOMMISSIONING == "DECOMMISSIONING"
DECOMMISSIONED == "DECOMMISSIONED"

PLUGIN_ERROR == "PLUGIN_ERROR"

\* The default of decommission's timeout parameter: 60*60*24 seconds.
DefaultTimeout == 86400

\* struct decomm_state ds once init has run: the state is the zero of the
\* enum, no address and the default timeout.
decomm_state_init ==
    [state |-> COMMISSIONED, address_or_xpub |-> NULL, timeout |-> DefaultTimeout]

\* Number of decommission commands the decommission model runs.
MaxDecomm == 2

\* A decommission command: where it stands, the results it was completed
\* with and whether its listpeers request is outstanding.
DecommCmd(at, results, listpeers) ==
    [pc |-> at, results |-> results, listpeers |-> listpeers]

NoDecommCmds ==
    [c \in 1..MaxDecomm |-> DecommCmd("new", << >>, FALSE)]

\* ------------------------------------------------------------- the state

VARIABLES
    pc,             \* per command: where the fetchinvoice command stands
    cmd_offer,      \* per command: the offer it holds (NULL once freed)
    cmd_invreq,     \* per command: the invoice_request built or sent
    cmd_label,      \* per command: rec_label
    cmd_blinding,   \* per command: sent->reply_blinding, set by send_message
    has_destructor, \* per command: destroy_sent registered on its struct sent
    sent_list,      \* the list of struct sent awaiting a reply
    next_blinding,  \* the next fresh key make_blindedpath generates
    completions,    \* per command: the handlers that completed it, in order
    key_owner,      \* per generated reply_blinding: the command it was made for
    last_op,        \* the handler that ran last and what it returned
    last_call,      \* the request the last handler was given, see Call
    payments,       \* the wallet's payments (wallet_payment_list)
    offers,         \* the wallet's offers, by offer_id (wallet_offer_*)
    ds,             \* the decommission plugin's struct decomm_state
    decomm_cmds     \* per decommission command: its result and listpeers request

vars == << pc, cmd_offer, cmd_invreq, cmd_label, cmd_blinding, has_destructor, sent_list, next_blinding, completions, key_owner, last_op, last_call, payments, offers, ds, decomm_cmds >>

Cmds == 1..MaxCmds

AllCmds == 1..(IF MaxCmds > ReplyCmds THEN MaxCmds ELSE ReplyCmds)

\* What a handler leaves behind for the checks to read: its name, the command
\* it completed (0 for none) with the result and, for the hook, the message
\* it was given and the entry find_sent returned.
Op(name, cmd, result, om, sent) ==
    [name |-> name, cmd |-> cmd, result |-> result, om |-> om, sent |-> sent]

\* What json_fetchinvoice was called with (offer and params), or the request
\* and label the reply of createinvoicerequest is for (invreq and label).
\* now is the time json_fetchinvoice read (time_now).
Call(cmd, offer, params, invreq, label) ==
    [cmd |-> cmd, offer |-> offer, params |-> params, invreq |-> invreq, label |-> label, now |-> NULL]

Init ==
    /\ pc = [c \in AllCmds |-> "new"]
    /\ cmd_offer = [c \in AllCmds |-> NULL]
    /\ cmd_invreq = [c \in AllCmds |-> NULL]
    /\ cmd_label = [c \in AllCmds |-> NULL]
    /\ cmd_blinding = [c \in AllCmds |-> NULL]
    /\ has_destructor = [c \in AllCmds |-> FALSE]
    /\ sent_list = << >>
    /\ next_blinding = 1
    /\ completions = [c \in AllCmds |-> << >>]
    /\ key_owner = [k \in AllCmds |-> 0]
    /\ last_op = Op("init", 0, NULL, NULL, NULL)
    /\ last_call = NULL
    /\ payments = << >>
    /\ offers = NoOffers
    /\ ds = decomm_state_init
    /\ decomm_cmds = NoDecommCmds

\* ------------------------------------------------------ memory ownership

\* The struct sent of command c: invreq_done allocates it off the command.
sent_of(c) ==
    Sent(Val(cmd_blinding[c]), c, Val(cmd_offer[c]), Val(cmd_invreq[c]))

destroy_sent_keep(list, s) ==
    list

destroy_sent_head(list, s) ==
    Tail(list)

\* destroy_sent: list_del of the entry.
destroy_sent(list, s) ==
    SelectSeq(list, LAMBDA e : e # s)

tal_free_cmd_all(c) ==
    /\ sent_list' = << >>
    /\ has_destructor' = [has_destructor EXCEPT ![c] = FALSE]
    /\ cmd_offer' = [cmd_offer EXCEPT ![c] = NULL]
    /\ cmd_invreq' = [cmd_invreq EXCEPT ![c] = NULL]
    /\ cmd_label' = [cmd_label EXCEPT ![c] = NULL]
    /\ cmd_blinding' = [cmd_blinding EXCEPT ![c] = NULL]

\* tal_free(cmd): the struct sent is the command's child, so it is freed with
\* it, and its destructor (if registered) runs.
tal_free_cmd(c) ==
    /\ sent_list' = IF has_destructor[c] THEN destroy_sent(sent_list, sent_of(c)) ELSE sent_list
    /\ has_destructor' = [has_destructor EXCEPT ![c] = FALSE]
    /\ cmd_offer' = [cmd_offer EXCEPT ![c] = NULL]
    /\ cmd_invreq' = [cmd_invreq EXCEPT ![c] = NULL]
    /\ cmd_label' = [cmd_label EXCEPT ![c] = NULL]
    /\ cmd_blinding' = [cmd_blinding EXCEPT ![c] = NULL]

command_complete_keep(name, c, result, om, sent) ==
    /\ pc' = [pc EXCEPT ![c] = "completed"]
    /\ completions' = [completions EXCEPT ![c] = IF Len(@) < 2 THEN Append(@, name) ELSE @]
    /\ last_op' = Op(name, c, Some(result), om, sent)
    /\ UNCHANGED << sent_list, has_destructor, cmd_offer, cmd_invreq, cmd_label, cmd_blinding >>

\* command_finished / command_fail / command_done_err / forward_error on
\* command c from handler `name`: the result goes to the caller and the
\* command is freed.
command_complete(name, c, result, om, sent) ==
    /\ pc' = [pc EXCEPT ![c] = "completed"]
    /\ completions' = [completions EXCEPT ![c] = IF Len(@) < 2 THEN Append(@, name) ELSE @]
    /\ last_op' = Op(name, c, Some(result), om, sent)
    /\ tal_free_cmd(c)

\* ------------------------------------------------------------ the actions

\* json_fetchinvoice: the fetchinvoice command c on offer o with parameters
\* p at time now. A rule that fails completes the command; otherwise the
\* request goes to createinvoicerequest and the command waits for its reply.
json_fetchinvoice(c, o, p, now) ==
    /\ pc[c] = "new"
    /\ LET fail == fetchinvoice_failure(o, p, now)
       IN IF fail # NULL
          THEN command_complete("json_fetchinvoice", c, Val(fail), NULL, NULL)
          ELSE /\ pc' = [pc EXCEPT ![c] = "createinvoicerequest"]
               /\ cmd_offer' = [cmd_offer EXCEPT ![c] = Some(o)]
               /\ cmd_invreq' = [cmd_invreq EXCEPT ![c] = Some(fetchinvoice_invreq(o, p))]
               /\ cmd_label' = [cmd_label EXCEPT ![c] = p.rec_label]
               /\ last_op' = Op("json_fetchinvoice", 0, NULL, NULL, NULL)
               /\ UNCHANGED << cmd_blinding, has_destructor, sent_list, completions >>
    /\ last_call' = Some([Call(c, o, Some(p), NULL, NULL) EXCEPT !.now = Some(now)])
    /\ UNCHANGED << next_blinding, key_owner, payments >>
    /\ UNCHANGED << offers, ds, decomm_cmds >>

\* lightningd answers createinvoicerequest with an error: forward_error
\* completes the command with it.
forward_error_invreq(c, random) ==
    /\ pc[c] = "createinvoicerequest"
    /\ LET reply == json_createinvoicerequest(payments, Val(cmd_invreq[c]), cmd_label[c], random)
       IN /\ reply.fail # NULL
          /\ command_complete("forward_error", c, Val(reply.fail), NULL, NULL)
    /\ last_call' = Some(Call(c, Val(cmd_offer[c]), NULL, cmd_invreq[c], cmd_label[c]))
    /\ UNCHANGED << next_blinding, key_owner, payments >>
    /\ UNCHANGED << offers, ds, decomm_cmds >>

\* make_blindedpath: the blinding of the n-th reply path this node builds.
\* Each call draws a new one.
make_blindedpath(n) ==
    n

send_message_sent_list_early(list, s) ==
    Append(list, s)

\* send_message does not touch sent_list: the entry goes in only when
\* sendonionmessage has returned (sendonionmsg_done).
send_message_sent_list(list, s) ==
    list

Routes == {"unknown_dst", "no_src", "no_route", "ok"}

\* lightningd answers createinvoicerequest with the request: invreq_done
\* allocates the struct sent off the command and calls send_message. route is
\* what the gossip map gives: the destination unknown, this node absent,
\* no route, or a route. With a route make_blindedpath generates a fresh
\* reply_blinding and sendonionmessage is sent.
invreq_done(c, random, route) ==
    /\ pc[c] = "createinvoicerequest"
    /\ LET reply == json_createinvoicerequest(payments, Val(cmd_invreq[c]), cmd_label[c], random)
       IN /\ reply.fail = NULL
          /\ IF route = "unknown_dst"
                 THEN command_complete("send_message", c, Failure(LIGHTNINGD, "Unknown destination"), NULL, NULL) /\ UNCHANGED << next_blinding, key_owner >>
             ELSE IF route = "no_src"
                 THEN command_complete("send_message", c, Failure(PAY_ROUTE_NOT_FOUND, "We don't have any channels"), NULL, NULL) /\ UNCHANGED << next_blinding, key_owner >>
             ELSE IF route = "no_route"
                 THEN command_complete("send_message", c, Failure(OFFER_ROUTE_NOT_FOUND, "Can't find route"), NULL, NULL) /\ UNCHANGED << next_blinding, key_owner >>
             ELSE /\ pc' = [pc EXCEPT ![c] = "sendonionmessage"]
                  /\ cmd_invreq' = [cmd_invreq EXCEPT ![c] = Some(reply.invreq)]
                  /\ cmd_blinding' = [cmd_blinding EXCEPT ![c] = Some(make_blindedpath(next_blinding))]
                  /\ next_blinding' = next_blinding + 1
                  /\ key_owner' = [key_owner EXCEPT ![make_blindedpath(next_blinding)] = c]
                  /\ sent_list' = send_message_sent_list(sent_list, Sent(make_blindedpath(next_blinding), c, Val(cmd_offer[c]), reply.invreq))
                  /\ last_op' = Op("send_message", 0, NULL, NULL, NULL)
                  /\ UNCHANGED << cmd_offer, cmd_label, has_destructor, completions >>
    /\ last_call' = Some(Call(c, Val(cmd_offer[c]), NULL, cmd_invreq[c], cmd_label[c]))
    /\ UNCHANGED payments
    /\ UNCHANGED << offers, ds, decomm_cmds >>

list_add_tail_twice(list, s) ==
    Append(Append(list, s), s)

list_add_tail(list, s) ==
    Append(list, s)

\* sendonionmsg_done: sendonionmessage returned. The entry joins sent_list,
\* destroy_sent is registered and the command stays pending.
sendonionmsg_done(c) ==
    /\ pc[c] = "sendonionmessage"
    /\ pc' = [pc EXCEPT ![c] = "pending"]
    /\ sent_list' = list_add_tail(sent_list, sent_of(c))
    /\ has_destructor' = [has_destructor EXCEPT ![c] = TRUE]
    /\ last_op' = Op("sendonionmsg_done", 0, NULL, NULL, NULL)
    /\ last_call' = NULL
    /\ UNCHANGED << cmd_offer, cmd_invreq, cmd_label, cmd_blinding, next_blinding, completions, key_owner, payments >>
    /\ UNCHANGED << offers, ds, decomm_cmds >>

\* sendonionmessage returned an error: forward_error completes the command.
forward_error_send(c) ==
    /\ pc[c] = "sendonionmessage"
    /\ command_complete("forward_error", c, Failure(LIGHTNINGD, "sendonionmessage failed"), NULL, NULL)
    /\ last_call' = NULL
    /\ UNCHANGED << next_blinding, key_owner, payments >>
    /\ UNCHANGED << offers, ds, decomm_cmds >>

recv_onion_message_skip(om) ==
    /\ LET sent == IF om.blinding_in = NULL \/ (om.invoice = NULL /\ om.invoice_error = NULL) THEN NULL ELSE find_sent(sent_list, Val(om.blinding_in))
       IN IF sent = NULL
          THEN /\ last_op' = Op("recv_onion_message", 0, NULL, Some(om), NULL)
               /\ UNCHANGED << pc, cmd_offer, cmd_invreq, cmd_label, cmd_blinding, has_destructor, sent_list, completions >>
          ELSE command_complete("recv_onion_message", Val(sent).cmd, reply_result(Val(sent), om), Some(om), sent)
    /\ last_call' = NULL
    /\ UNCHANGED << next_blinding, key_owner, payments >>
    /\ UNCHANGED << offers, ds, decomm_cmds >>

\* recv_onion_message: the onion_message_blinded hook on message om. Without
\* a blinding_in, or with one no entry has, the hook returns and nothing
\* else happens; otherwise the entry's command is completed.
recv_onion_message(om) ==
    /\ LET sent == IF om.blinding_in = NULL THEN NULL ELSE find_sent(sent_list, Val(om.blinding_in))
       IN IF sent = NULL
          THEN /\ last_op' = Op("recv_onion_message", 0, NULL, Some(om), NULL)
               /\ UNCHANGED << pc, cmd_offer, cmd_invreq, cmd_label, cmd_blinding, has_destructor, sent_list, completions >>
          ELSE command_complete("recv_onion_message", Val(sent).cmd, reply_result(Val(sent), om), Some(om), sent)
    /\ last_call' = NULL
    /\ UNCHANGED << next_blinding, key_owner, payments >>
    /\ UNCHANGED << offers, ds, decomm_cmds >>

\* The caller's command is freed before it has a result (cancellation).
cmd_freed(c) ==
    /\ pc[c] \in {"createinvoicerequest", "sendonionmessage", "pending"}
    /\ pc' = [pc EXCEPT ![c] = "freed"]
    /\ last_op' = Op("cmd_freed", 0, NULL, NULL, IF has_destructor[c] THEN Some(sent_of(c)) ELSE NULL)
    /\ tal_free_cmd(c)
    /\ last_call' = NULL
    /\ UNCHANGED << next_blinding, completions, key_owner, payments >>
    /\ UNCHANGED << offers, ds, decomm_cmds >>

\* ------------------------------------------------- the offer commands

\* What the fetchinvoice plugin holds: the offer commands and the
\* decommission plugin leave it alone.
fetch_vars == << pc, cmd_offer, cmd_invreq, cmd_label, cmd_blinding, has_destructor, sent_list, next_blinding, completions, key_owner, payments >>

\* An offer command returns result; it was called with call.
offer_command_done(name, result, call) ==
    /\ last_op' = Op(name, 0, Some(result), NULL, NULL)
    /\ last_call' = Some(call)
    /\ UNCHANGED << fetch_vars, ds, decomm_cmds >>

json_createoffer_replace(o, signed, label, single_use) ==
    LET status == IF single_use = Some(TRUE) THEN OFFER_SINGLE_USE ELSE OFFER_MULTIPLE_USE
        merkle == merkle_tlv(o)
        b12str == offer_encode(o)
        call == OfferCall(Some(merkle), Some(o), signed, label, single_use)
    IN IF signed
       THEN /\ offers' = offers
            /\ offer_command_done("json_createoffer", Failure(JSONRPC2_INVALID_PARAMS, "must be unsigned offer"), call)
       ELSE /\ offers' = [offers EXCEPT ![merkle] = Some(OfferRecord(b12str, label, status))]
            /\ offer_command_done("json_createoffer", OfferResult(<< json_populate_offer(merkle, b12str, label, status) >>), call)

json_createoffer_multi(o, signed, label, single_use) ==
    LET status == OFFER_MULTIPLE_USE
        merkle == merkle_tlv(o)
        b12str == offer_encode(o)
        created == wallet_offer_create(offers, merkle, b12str, label, status)
        call == OfferCall(Some(merkle), Some(o), signed, label, single_use)
    IN IF signed
       THEN /\ offers' = offers
            /\ offer_command_done("json_createoffer", Failure(JSONRPC2_INVALID_PARAMS, "must be unsigned offer"), call)
       ELSE IF created = NULL
       THEN /\ offers' = offers
            /\ offer_command_done("json_createoffer", Failure(OFFER_ALREADY_EXISTS, "Duplicate offer"), call)
       ELSE /\ offers' = Val(created)
            /\ offer_command_done("json_createoffer", OfferResult(<< json_populate_offer(merkle, b12str, label, status) >>), call)

\* json_createoffer on the bolt12 string of offer o (signed: it already
\* carries a signature), with an optional label and an optional single_use
\* (false by default).
json_createoffer(o, signed, label, single_use) ==
    LET status == IF single_use = Some(TRUE) THEN OFFER_SINGLE_USE ELSE OFFER_MULTIPLE_USE
        merkle == merkle_tlv(o)
        b12str == offer_encode(o)
        created == wallet_offer_create(offers, merkle, b12str, label, status)
        call == OfferCall(Some(merkle), Some(o), signed, label, single_use)
    IN IF signed
       THEN /\ offers' = offers
            /\ offer_command_done("json_createoffer", Failure(JSONRPC2_INVALID_PARAMS, "must be unsigned offer"), call)
       ELSE IF created = NULL
       THEN /\ offers' = offers
            /\ offer_command_done("json_createoffer", Failure(OFFER_ALREADY_EXISTS, "Duplicate offer"), call)
       ELSE /\ offers' = Val(created)
            /\ offer_command_done("json_createoffer", OfferResult(<< json_populate_offer(merkle, b12str, label, status) >>), call)

\* The offers json_listoffers reports of the table's first n rows, in the
\* order of wallet_offer_id_first / wallet_offer_id_next.
RECURSIVE listoffers_rows(_, _, _)
listoffers_rows(tbl, n, active_only) ==
    IF n = 0 THEN << >>
    ELSE LET rest == listoffers_rows(tbl, n - 1, active_only)
         IN IF tbl[n] # NULL /\ (offer_status_active(Val(tbl[n]).status) \/ ~active_only)
            THEN Append(rest, json_populate_offer(n, Val(tbl[n]).bolt12, Val(tbl[n]).label, Val(tbl[n]).status))
            ELSE rest

\* json_listoffers with an optional offer_id and an optional active_only
\* (false by default).
json_listoffers(offer_id, active_only) ==
    LET only == (active_only = Some(TRUE))
        row == wallet_offer_find(offers, Val(offer_id))
        list == IF offer_id # NULL
                THEN IF row # NULL /\ (offer_status_active(Val(row).status) \/ ~only)
                     THEN << json_populate_offer(Val(offer_id), Val(row).bolt12, Val(row).label, Val(row).status) >>
                     ELSE << >>
                ELSE listoffers_rows(offers, Len(OfferTable), only)
    IN /\ offers' = offers
       /\ offer_command_done("json_listoffers", OfferResult(list), OfferCall(offer_id, NULL, FALSE, NULL, active_only))

json_disableoffer_nocheck(offer_id) ==
    LET row == wallet_offer_find(offers, offer_id)
        call == OfferCall(Some(offer_id), NULL, FALSE, NULL, NULL)
    IN IF row = NULL
       THEN /\ offers' = offers
            /\ offer_command_done("json_disableoffer", Failure(LIGHTNINGD, "Unknown offer"), call)
       ELSE LET status == wallet_offer_disable(Val(row).status)
            IN /\ offers' = [offers EXCEPT ![offer_id] = Some([Val(row) EXCEPT !.status = status])]
               /\ offer_command_done("json_disableoffer", OfferResult(<< json_populate_offer(offer_id, Val(row).bolt12, Val(row).label, status) >>), call)

json_disableoffer_used(offer_id) ==
    LET row == wallet_offer_find(offers, offer_id)
        call == OfferCall(Some(offer_id), NULL, FALSE, NULL, NULL)
    IN IF row = NULL
       THEN /\ offers' = offers
            /\ offer_command_done("json_disableoffer", Failure(LIGHTNINGD, "Unknown offer"), call)
       ELSE IF Val(row).status \in {OFFER_SINGLE_DISABLED, OFFER_MULTIPLE_DISABLED}
       THEN /\ offers' = offers
            /\ offer_command_done("json_disableoffer", Failure(OFFER_ALREADY_DISABLED, "offer is not active"), call)
       ELSE LET status == wallet_offer_disable(Val(row).status)
            IN /\ offers' = [offers EXCEPT ![offer_id] = Some([Val(row) EXCEPT !.status = status])]
               /\ offer_command_done("json_disableoffer", OfferResult(<< json_populate_offer(offer_id, Val(row).bolt12, Val(row).label, status) >>), call)

\* json_disableoffer on offer_id.
json_disableoffer(offer_id) ==
    LET row == wallet_offer_find(offers, offer_id)
        call == OfferCall(Some(offer_id), NULL, FALSE, NULL, NULL)
    IN IF row = NULL
       THEN /\ offers' = offers
            /\ offer_command_done("json_disableoffer", Failure(LIGHTNINGD, "Unknown offer"), call)
       ELSE IF ~offer_status_active(Val(row).status)
       THEN /\ offers' = offers
            /\ offer_command_done("json_disableoffer", Failure(OFFER_ALREADY_DISABLED, "offer is not active"), call)
       ELSE LET status == wallet_offer_disable(Val(row).status)
            IN /\ offers' = [offers EXCEPT ![offer_id] = Some([Val(row) EXCEPT !.status = status])]
               /\ offer_command_done("json_disableoffer", OfferResult(<< json_populate_offer(offer_id, Val(row).bolt12, Val(row).label, status) >>), call)

\* --------------------------------------------- the decommission commands

\* command_success_str of json_decommission: the timeout and the address
\* the message names.
DecommStarted(timeout, address_or_xpub) ==
    [kind |-> "success", msg |-> "Decommission started.", timeout |-> timeout, address_or_xpub |-> address_or_xpub]

\* command_success_str with a fixed message.
SuccessStr(msg) ==
    [kind |-> "success", msg |-> msg]

\* A decommission plugin command returns result after leaving ds as next.
decomm_command_done(name, c, result, next) ==
    /\ ds' = next
    /\ last_op' = Op(name, c, Some(result), NULL, NULL)
    /\ last_call' = NULL
    /\ UNCHANGED << fetch_vars, offers >>

\* The plugin process is alive: no callback on a freed command has crashed it.
PluginRunning ==
    \A c \in 1..MaxDecomm : decomm_cmds[c].pc # "crashed"

json_decommission_always(c, address_or_xpub, timeout) ==
    /\ PluginRunning
    /\ decomm_cmds[c].pc = "new"
    /\ LET t == IF timeout = NULL THEN DefaultTimeout ELSE Val(timeout)
           given == [ds EXCEPT !.address_or_xpub = address_or_xpub, !.timeout = t]
       IN /\ decomm_cmds' = [decomm_cmds EXCEPT ![c] = DecommCmd("completed", << DecommStarted(t, address_or_xpub) >>, TRUE)]
          /\ decomm_command_done("json_decommission", c, DecommStarted(t, address_or_xpub), [given EXCEPT !.state = DECOMMISSIONING])

\* json_decommission: decommission command c with an optional
\* address_or_xpub and an optional timeout. param stores both in ds before
\* the state is looked at. In state COMMISSIONED the state becomes
\* DECOMMISSIONING, close_all_channels sends listpeers on behalf of the
\* command and the command is completed with success.
json_decommission(c, address_or_xpub, timeout) ==
    /\ PluginRunning
    /\ decomm_cmds[c].pc = "new"
    /\ LET t == IF timeout = NULL THEN DefaultTimeout ELSE Val(timeout)
           given == [ds EXCEPT !.address_or_xpub = address_or_xpub, !.timeout = t]
           fail == IF ds.state = DECOMMISSIONING THEN Some(Failure(PLUGIN_ERROR, "Decommissioning already in progress"))
                   ELSE IF ds.state = DECOMMISSIONED THEN Some(Failure(PLUGIN_ERROR, "Node already decommissioned."))
                   ELSE IF ds.state # COMMISSIONED THEN Some(Failure(PLUGIN_ERROR, "FATAL: INVALID_STATE"))
                   ELSE NULL
       IN IF fail # NULL
          THEN /\ decomm_cmds' = [decomm_cmds EXCEPT ![c] = DecommCmd("completed", << Val(fail) >>, FALSE)]
               /\ decomm_command_done("json_decommission", c, Val(fail), given)
          ELSE /\ decomm_cmds' = [decomm_cmds EXCEPT ![c] = DecommCmd("completed", << DecommStarted(t, address_or_xpub) >>, TRUE)]
               /\ decomm_command_done("json_decommission", c, DecommStarted(t, address_or_xpub), [given EXCEPT !.state = DECOMMISSIONING])

listpeers_done_finish(c, outcome) ==
    /\ PluginRunning
    /\ decomm_cmds[c].listpeers
    /\ decomm_cmds' = [decomm_cmds EXCEPT ![c] = DecommCmd(IF outcome = "crashed" THEN "crashed" ELSE @.pc, IF outcome = "delivered" THEN Append(@.results, [kind |-> "success", foo |-> "bar"]) ELSE @.results, FALSE)]
    /\ last_op' = Op("listpeers_done", c, IF outcome = "delivered" THEN Some([kind |-> "success", foo |-> "bar"]) ELSE NULL, NULL, NULL)
    /\ last_call' = NULL
    /\ ds' = [ds EXCEPT !.state = IF @ = DECOMMISSIONING THEN DECOMMISSIONED ELSE @]
    /\ UNCHANGED << fetch_vars, offers >>

\* The reply to the listpeers request of decommission command c arrives:
\* listpeers_done (or forward_error) completes the command it was sent for.
\* json_decommission has completed that command already, so the callback
\* works on a freed command: the result reaches the caller a second time
\* ("delivered"), is lost ("lost"), or the plugin dies ("crashed").
listpeers_done(c, outcome) ==
    /\ PluginRunning
    /\ decomm_cmds[c].listpeers
    /\ decomm_cmds' = [decomm_cmds EXCEPT ![c] = DecommCmd(IF outcome = "crashed" THEN "crashed" ELSE @.pc, IF outcome = "delivered" THEN Append(@.results, [kind |-> "success", foo |-> "bar"]) ELSE @.results, FALSE)]
    /\ last_op' = Op("listpeers_done", c, IF outcome = "delivered" THEN Some([kind |-> "success", foo |-> "bar"]) ELSE NULL, NULL, NULL)
    /\ last_call' = NULL
    /\ UNCHANGED << fetch_vars, offers, ds >>

json_recommission_keep ==
    /\ PluginRunning
    /\ UNCHANGED decomm_cmds
    /\ IF ds.state = COMMISSIONED
       THEN decomm_command_done("json_recommission", 0, Failure(PLUGIN_ERROR, "Node still active."), ds)
       ELSE decomm_command_done("json_recommission", 0, SuccessStr("Decommissioning cancelled."), ds)

\* json_recommission.
json_recommission ==
    /\ PluginRunning
    /\ UNCHANGED decomm_cmds
    /\ IF ds.state = COMMISSIONED
       THEN decomm_command_done("json_recommission", 0, Failure(PLUGIN_ERROR, "Node still active."), ds)
       ELSE IF ds.state # DECOMMISSIONING /\ ds.state # DECOMMISSIONED
       THEN decomm_command_done("json_recommission", 0, Failure(PLUGIN_ERROR, "FATAL: INVALID_STATE"), ds)
       ELSE decomm_command_done("json_recommission", 0, SuccessStr("Decommissioning cancelled."), [ds EXCEPT !.state = COMMISSIONED])

\* json_commissionstate.
json_commissionstate ==
    /\ PluginRunning
    /\ UNCHANGED decomm_cmds
    /\ IF ds.state = COMMISSIONED
       THEN decomm_command_done("json_commissionstate", 0, SuccessStr("Node still active."), ds)
       ELSE IF ds.state = DECOMMISSIONED
       THEN decomm_command_done("json_commissionstate", 0, SuccessStr("Node already decommissioned."), ds)
       ELSE IF ds.state # DECOMMISSIONING
       THEN decomm_command_done("json_commissionstate", 0, Failure(PLUGIN_ERROR, "FATAL: INVALID_STATE"), ds)
       ELSE decomm_command_done("json_commissionstate", 0, SuccessStr("Decommissioning in progress."), ds)

\* ------------------------------------------------------------- the inputs

\* The invoice a remote node answers entry s with when it follows BOLT 12:
\* signed by the offer's node, echoing the request's fields and the offer's
\* description and vendor.
GoodInvoice(s) ==
    [Invoice(TRUE, s.offer.node_id, s.offer.node_id, Some(1), s.invreq.offer_id, s.invreq.quantity, s.invreq.recurrence_counter, s.invreq.recurrence_start, s.invreq.payer_key, s.invreq.payer_info, IF s.invreq.recurrence_counter = NULL THEN NULL ELSE Some(5))
        EXCEPT !.description = s.offer.description, !.vendor = s.offer.vendor]

\* The values a reply may carry in a field instead.
FieldAlts ==
    [wire_ok |-> {FALSE},
     node_id |-> {NULL, Some(2)},
     signature |-> {NULL, Some(0), Some(2)},
     amount |-> {NULL, Some(2)},
     offer_id |-> {NULL, Some(0)},
     quantity |-> {NULL, Some(1), Some(2)},
     recurrence_counter |-> {NULL, Some(0), Some(1)},
     recurrence_start |-> {NULL, Some(0)},
     payer_key |-> {NULL, Some(<<"bolt12_base", 0>>)},
     payer_info |-> {NULL, Some(0)},
     recurrence_basetime |-> {NULL, Some(5)}]

\* The one value of FieldAlts a reply with two fields off carries.
PrimaryAlt ==
    [wire_ok |-> FALSE, node_id |-> Some(2), signature |-> Some(0),
     amount |-> NULL, offer_id |-> Some(0), quantity |-> NULL,
     recurrence_counter |-> NULL, recurrence_start |-> Some(0),
     payer_key |-> NULL, payer_info |-> NULL, recurrence_basetime |-> NULL]

Perturb1(inv) ==
    {[inv EXCEPT ![f] = v] : <<f, v>> \in UNION {{f2} \X FieldAlts[f2] : f2 \in DOMAIN FieldAlts}}

PerturbPrimary(inv) ==
    {[inv EXCEPT ![f] = PrimaryAlt[f]] : f \in DOMAIN PrimaryAlt}

\* inv with one field replaced by any of its FieldAlts, or with up to two
\* fields replaced by their PrimaryAlt.
Perturb2(inv) ==
    {inv} \cup Perturb1(inv) \cup UNION {PerturbPrimary(i1) : i1 \in PerturbPrimary(inv)}

ErrUndecodable == InvoiceError("00ff", FALSE, NULL, NULL, NULL)

ErrFull == InvoiceError("0102", TRUE, Some(3), Some("2a"), Some("bad quantity"))

ErrBare == InvoiceError("", TRUE, NULL, NULL, NULL)

\* The request a reply is shaped after when the table is empty.
DefaultSent == Sent(0, 0, OfferPlain, [tlv_invoice_request_new EXCEPT !.offer_id = Some(1), !.amount = Some(1), !.payer_info = Some(1), !.payer_key = Some(<<"bolt12_base", 1>>)])

ReplyTemplates(list) ==
    {list[i] : i \in 1..Len(list)} \cup {DefaultSent}

Blindings(n) ==
    {NULL} \cup {Some(k) : k \in 0..n}

\* Inbound messages of the exchange model: any blinding_in, and a payload
\* answering some outstanding request: its invoice, its invoice with a
\* signature that does not verify, an invoice_error, or neither field.
EngineMsgs(list) ==
    {OnionMessage(b, pl[1], pl[2]) :
        b \in Blindings(MaxCmds),
        pl \in UNION {{<<NULL, Some(GoodInvoice(s))>>,
                       <<NULL, Some([GoodInvoice(s) EXCEPT !.signature = Some(0)])>>,
                       <<Some(ErrUndecodable), NULL>>,
                       <<NULL, NULL>>} : s \in ReplyTemplates(list)}}

\* Inbound messages of the reply-validation model. On an outstanding
\* request's own reply_blinding: its invoice with up to two fields off, and
\* every shape of invoice_error with and without an invoice. On any
\* blinding_in: the invoice of some request, an invoice_error, or neither.
ReplyMsgs(list) ==
    UNION {{OnionMessage(Some(s.reply_blinding), NULL, Some(i)) : i \in Perturb2(GoodInvoice(s))}
           \cup {OnionMessage(Some(s.reply_blinding), e, i) :
                    e \in {Some(ErrUndecodable), Some(ErrFull), Some(ErrBare)},
                    i \in {NULL, Some(GoodInvoice(s)), Some([GoodInvoice(s) EXCEPT !.signature = NULL])}}
           : s \in {list[k] : k \in 1..Len(list)}}
    \cup {OnionMessage(b, pl[1], pl[2]) :
            b \in Blindings(ReplyCmds),
            pl \in UNION {{<<NULL, Some(GoodInvoice(s))>>, <<Some(ErrUndecodable), NULL>>, <<NULL, NULL>>} : s \in ReplyTemplates(list)}}

EngineParams ==
    {Params(m, NULL, NULL, NULL, NULL) : m \in {NULL, Some(1)}}

\* The fetchinvoice calls of the reply-validation model: offer and parameters.
ReplyCalls ==
    {<<OfferPlain, Params(Some(1), NULL, NULL, NULL, NULL)>>,
     <<OfferRecurring, Params(NULL, Some(1), Some(0), NULL, Some("sub"))>>,
     <<OfferRecurring, Params(NULL, Some(2), Some(0), NULL, Some("sub"))>>,
     <<OfferRecurring, Params(NULL, Some(1), Some(1), NULL, Some("sub"))>>,
     <<OfferRecurring, Params(NULL, Some(1), Some(0), NULL, NULL)>>,
     <<OfferQuantity, Params(NULL, Some(0), NULL, NULL, NULL)>>,
     <<OfferQuantity, Params(NULL, Some(2), NULL, NULL, NULL)>>}

\* A payment of the wallet: its label, the fields prev_payment reads from
\* its decoded invstring (inv is NULL without one) and its status.
Payment(label, offer_id, recurrence_counter, recurrence_start, payer_info, status) ==
    [label |-> Some(label),
     inv |-> Some([offer_id |-> Some(offer_id), recurrence_counter |-> recurrence_counter, recurrence_start |-> recurrence_start, payer_info |-> payer_info]),
     status |-> status]

\* The fetchinvoice calls of the result model: every kind of offer, with the
\* parameters it takes.
ResultCalls ==
    {<<OfferPlain, Params(Some(1), NULL, NULL, NULL, NULL)>>,
     <<OfferFixed, Params(NULL, NULL, NULL, NULL, NULL)>>,
     <<OfferCurrency, Params(NULL, NULL, NULL, NULL, NULL)>>,
     <<OfferQuantity, Params(NULL, Some(0), NULL, NULL, NULL)>>,
     <<OfferQuantity, Params(NULL, Some(1), NULL, NULL, NULL)>>,
     <<OfferQuantity, Params(NULL, Some(2), NULL, NULL, NULL)>>,
     <<OfferQuantityFrom0, Params(NULL, Some(0), NULL, NULL, NULL)>>}
    \cup {<<OfferRecurring, Params(NULL, Some(q), Some(0), NULL, Some("sub"))>> : q \in 0..2}
    \cup {<<OfferLimited, Params(Some(1), NULL, Some(0), Some(st), Some("sub"))>> : st \in 0..3}
    \cup {<<OfferLimited, Params(Some(1), NULL, Some(1), Some(1), l)>> : l \in {Some("sub"), Some("gift")}}

\* The wallet of the result model: the first period of OfferLimited, started
\* at period 1, has been paid under the label "sub".
ResultPayments ==
    << Payment("sub", merkle_tlv(OfferLimited), Some(0), Some(1), Some(1), "complete") >>

\* Replies of the result model, on an outstanding request's own
\* reply_blinding: its invoice with another amount, another description or
\* another recurrence_basetime, or without one.
ResultMsgs(list) ==
    UNION {{OnionMessage(Some(s.reply_blinding), NULL, Some(i)) :
                i \in {GoodInvoice(s)}
                    \cup {[GoodInvoice(s) EXCEPT !.amount = Some(a)] : a \in {0, 2, 4, 8}}
                    \cup {[GoodInvoice(s) EXCEPT !.description = d] : d \in {NULL, Some("coffee (decaf)"), Some("cocoa tin"), Some("cof")}}
                    \cup {[GoodInvoice(s) EXCEPT !.recurrence_basetime = b] : b \in {NULL, Some(1600000000)}}}
           : s \in {list[k] : k \in 1..Len(list)}}

\* Longest payment list the wallet of the payment model starts with.
MaxPayments == 2

\* The payments the wallet of the payment model may hold: of OfferLimited
\* under the label "sub" started at period 1 (period 0 paid, period 0
\* failed, period 1 paid), the same started at period 2, the same without
\* payer_info, a failed attempt of period 0 fetched separately (so with its
\* own payer_info), under another label, and of another offer.
PaymentKinds ==
    {Payment("sub", merkle_tlv(OfferLimited), Some(0), Some(1), Some(1), "complete"),
     Payment("sub", merkle_tlv(OfferLimited), Some(0), Some(1), Some(1), "failed"),
     Payment("sub", merkle_tlv(OfferLimited), Some(1), Some(1), Some(1), "complete"),
     Payment("sub", merkle_tlv(OfferLimited), Some(0), Some(2), Some(2), "complete"),
     Payment("sub", merkle_tlv(OfferLimited), Some(0), Some(1), NULL, "complete"),
     Payment("sub", merkle_tlv(OfferLimited), Some(0), Some(1), Some(5), "failed"),
     Payment("gift", merkle_tlv(OfferLimited), Some(0), Some(1), Some(3), "complete"),
     Payment("sub", merkle_tlv(OfferRecurring), Some(0), NULL, Some(4), "complete")}

PaymentStores ==
    UNION {[1..n -> PaymentKinds] : n \in 0..MaxPayments}

\* The fetchinvoice calls of the payment model: periods 0, 1 and 2 of
\* OfferLimited started at period 1, and period 1 of OfferRecurring.
PayCalls ==
    {<<OfferLimited, Params(Some(1), NULL, Some(n), Some(1), Some("sub"))>> : n \in 0..2}
    \cup {<<OfferRecurring, Params(NULL, Some(1), Some(1), NULL, Some("sub"))>>}

\* The fetchinvoice calls of the parameter model: every kind of offer with
\* every combination of parameters given and left out.
ParamCalls ==
    {<<o, Params(m, q, n, st, l)>> :
        o \in {OfferPlain, OfferFixed, OfferQuantity, OfferQuantityFrom0, OfferRecurring, OfferLimited, OfferBaseZero},
        m \in {NULL, Some(1)},
        q \in {NULL, Some(0), Some(1), Some(4)},
        n \in {NULL, Some(0), Some(1)},
        st \in {NULL, Some(1)},
        l \in {NULL, Some("sub")}}

\* Largest time of the expiry model.
MaxTime == 2

\* The fetchinvoice calls of the expiry model: offers with and without an
\* absolute_expiry and send_invoice, one without description, with the
\* parameters given and left out, and a later period of a recurring offer.
FetchCalls ==
    {<<o, Params(m, q, NULL, NULL, NULL)>> :
        o \in {OfferPlain, OfferFixed, OfferExpiring, OfferSendInvoice, OfferSendInvoiceExpiring, OfferNoDescription},
        m \in {NULL, Some(1)},
        q \in {NULL, Some(1)}}
    \cup {<<OfferRecurring, Params(NULL, Some(1), Some(1), NULL, Some("sub"))>>}

\* Number of offers the wallet holds when the offer model starts.
MaxStored == 1

\* What the wallet can hold of an offer: nothing, or a label (or none) and
\* a status.
StoredRows ==
    {NULL} \cup {Some(<< l, st >>) : l \in {NULL, Some("shop")}, st \in OfferStatuses}

\* The offers tables the offer model starts from: each of the first
\* MaxStored offer_ids has its offer's bolt12 string in any row of
\* StoredRows, or no row.
StoredOffers ==
    {[id \in OfferIds |->
        IF id <= MaxStored /\ f[id] # NULL
        THEN Some(OfferRecord(offer_encode(OfferTable[id]), Val(f[id])[1], Val(f[id])[2]))
        ELSE NULL] : f \in [1..MaxStored -> StoredRows]}

\* The createoffer calls: an offer the wallet may hold or the next one,
\* unsigned with and without label and single_use, or already signed.
CreateCalls ==
    {<< OfferTable[id], FALSE, l, su >> : id \in 1..(MaxStored + 1), l \in {NULL, Some("shop")}, su \in {NULL, Some(FALSE), Some(TRUE)}}
    \cup {<< OfferTable[id], TRUE, NULL, NULL >> : id \in 1..(MaxStored + 1)}

\* The offer_ids listoffers and disableoffer are called with: 0 is the
\* hash of no offer.
OfferIdParams == 0..(MaxStored + 1)

\* ------------------------------------------------------ the specifications

\* Concurrent exchanges: MaxCmds fetchinvoice commands on the plain offer.
Next ==
    \/ \E c \in Cmds, p \in EngineParams : json_fetchinvoice(c, OfferPlain, p, 0)
    \/ \E c \in Cmds, route \in Routes : invreq_done(c, 1, route)
    \/ \E c \in Cmds : sendonionmsg_done(c)
    \/ \E c \in Cmds : forward_error_send(c)
    \/ \E om \in EngineMsgs(sent_list) : recv_onion_message(om)
    \/ \E c \in Cmds : cmd_freed(c)

Spec == Init /\ [][Next]_vars

\* lightningd answers every request it was sent; the remote node and the
\* caller owe nothing.
FairSpec == Spec /\ WF_vars(\E c \in Cmds : sendonionmsg_done(c) \/ forward_error_send(c)) /\ WF_vars(\E c \in Cmds, route \in Routes : invreq_done(c, 1, route))

\* Reply validation: ReplyCmds commands, on the plain and the recurring
\* offer, answered by every reply of ReplyMsgs.
NextReply ==
    \/ \E c \in 1..ReplyCmds, call \in ReplyCalls : json_fetchinvoice(c, call[1], call[2], 0)
    \/ \E c \in 1..ReplyCmds : forward_error_invreq(c, 1)
    \/ \E c \in 1..ReplyCmds, route \in Routes : invreq_done(c, 1, route)
    \/ \E c \in 1..ReplyCmds : sendonionmsg_done(c)
    \/ \E om \in ReplyMsgs(sent_list) : recv_onion_message(om)

SpecReply == Init /\ [][NextReply]_vars

\* -------------------------------------------------------------- the claims

\* Some entry of the table has reply_blinding k.
InTable(k) ==
    \E i \in 1..Len(sent_list) : sent_list[i].reply_blinding = k

\* The last handler was the hook, and it matched an entry.
HookMatched ==
    last_op.name = "recv_onion_message" /\ last_op.sent # NULL

\* The last handler was the hook, and it returned without a match.
HookIgnored ==
    last_op.name = "recv_onion_message" /\ last_op.sent = NULL

\* C1: sent_list never holds two entries with the same reply_blinding.
C1_UniqueReplyBlinding ==
    \A i, j \in 1..Len(sent_list) :
        sent_list[i].reply_blinding = sent_list[j].reply_blinding => i = j

\* Two exchanges are outstanding at once.
C1_Witness ==
    Len(sent_list) >= 2

\* C2: an invoice the hook completes a command successfully with has the
\* offer's node_id, the request's offer_id, and each of quantity,
\* recurrence_counter, recurrence_start, payer_key and payer_info unset in
\* both invoice and request or set to the same value in both.
C2_ValidatedInvoiceMatchesRequest ==
    (HookMatched /\ Val(last_op.result).kind = "success") =>
        LET I == Val(Val(last_op.result).invoice)
            O == Val(last_op.sent).offer
            R == Val(last_op.sent).invreq
        IN /\ I.node_id = O.node_id
           /\ I.offer_id = R.offer_id
           /\ \A f \in {"quantity", "recurrence_counter", "recurrence_start", "payer_key", "payer_info"} :
                \/ I[f] = NULL /\ R[f] = NULL
                \/ I[f] # NULL /\ R[f] # NULL /\ Val(I[f]) = Val(R[f])

\* A recurring request with a quantity got its invoice.
C2_Witness ==
    /\ HookMatched
    /\ Val(last_op.result).kind = "success"
    /\ Val(last_op.sent).invreq.quantity # NULL
    /\ Val(last_op.sent).invreq.recurrence_counter # NULL
    /\ Val(last_op.sent).invreq.recurrence_start = NULL

\* The checks of a reply's invoice in the order C3 gives them; "" when the
\* invoice passes them all.
C3_ClaimedBadfield(sent, inv) ==
    LET R == sent.invreq
        O == sent.offer
        checks == <<
            <<"invoice", ~inv.wire_ok>>,
            <<"node_id", inv.node_id # O.node_id>>,
            <<"signature", inv.signature = NULL \/ inv.signature # inv.node_id>>,
            <<"amount", inv.amount = NULL>>,
            <<"offer_id", inv.offer_id # R.offer_id>>,
            <<"quantity", inv.quantity # R.quantity>>,
            <<"recurrence_counter", inv.recurrence_counter # R.recurrence_counter>>,
            <<"recurrence_start", inv.recurrence_start # R.recurrence_start>>,
            <<"payer_key", inv.payer_key # R.payer_key>>,
            <<"payer_info", inv.payer_info # R.payer_info>>,
            <<"recurrence_basetime", R.recurrence_counter # NULL /\ inv.recurrence_basetime = NULL>>,
            <<"quantity overflow", /\ O.amount # NULL /\ O.currency = NULL /\ R.quantity # NULL
                                   /\ Val(O.amount) * Val(R.quantity) > MaxU64>> >>
        failing == {n \in 1..Len(checks) : checks[n][2]}
    IN IF failing = {} THEN ""
       ELSE checks[CHOOSE n \in failing : \A m \in failing : n <= m][1]

\* C3: a matched reply whose invoice fails a check fails the command with
\* OFFER_BAD_INVREQ_REPLY naming the first failing check in the order decode,
\* node_id, signature, amount, offer_id, quantity, recurrence_counter,
\* recurrence_start, payer_key, payer_info, recurrence_basetime, quantity
\* overflow.
C3_FirstFailingCheckNamed ==
    (/\ HookMatched
     /\ Val(last_op.om).invoice_error = NULL
     /\ Val(last_op.om).invoice # NULL
     /\ C3_ClaimedBadfield(Val(last_op.sent), Val(Val(last_op.om).invoice)) # "") =>
        /\ Val(last_op.result).kind = "error"
        /\ Val(last_op.result).code = OFFER_BAD_INVREQ_REPLY
        /\ Val(last_op.result).msg = C3_ClaimedBadfield(Val(last_op.sent), Val(Val(last_op.om).invoice))

\* C4: a command that is pending in the table does not stay pending for ever
\* (a reply resumes it, or its deadline does).
C4_PendingEventuallyResumed ==
    \A c \in Cmds : (pc[c] = "pending") ~> (pc[c] # "pending")

\* C5: no command is completed more than once.
C5_ResumedAtMostOnce ==
    \A c \in AllCmds : Len(completions[c]) <= 1

\* A message arrived on the reply_blinding of a command the hook had
\* already completed.
C5_Witness ==
    /\ HookIgnored
    /\ Val(last_op.om).blinding_in # NULL
    /\ \E k \in AllCmds :
        /\ Val(last_op.om).blinding_in = Some(k)
        /\ key_owner[k] # 0
        /\ completions[key_owner[k]] = << "recv_onion_message" >>

\* C6: a message without a blinding_in, or with one no entry of the table
\* has, changes neither the table nor any command.
C6_UnmatchedMessageIgnored ==
    [][(/\ last_op'.name = "recv_onion_message"
        /\ \/ Val(last_op'.om).blinding_in = NULL
           \/ ~InTable(Val(Val(last_op'.om).blinding_in)))
       => /\ UNCHANGED << pc, sent_list, completions, cmd_offer, cmd_invreq, cmd_label, cmd_blinding, has_destructor >>
          /\ last_op'.cmd = 0
          /\ last_op'.result = NULL]_vars

\* A message arrived on a blinding_in no entry has while a command was
\* pending in the table.
C6_Witness ==
    /\ HookIgnored
    /\ Val(last_op.om).blinding_in # NULL
    /\ Val(last_op.om).invoice # NULL
    /\ \E c \in Cmds : pc[c] = "pending" /\ InTable(Val(cmd_blinding[c]))

\* C7: a freed command has no entry in the table, the entry its free removed
\* is gone, and a message on a freed command's reply_blinding matches nothing.
C7_FreedCommandUnmatched ==
    /\ \A c \in AllCmds : pc[c] = "freed" =>
        /\ \A i \in 1..Len(sent_list) : sent_list[i].cmd # c
        /\ completions[c] = << >>
    /\ (last_op.name = "cmd_freed" /\ last_op.sent # NULL) =>
        ~InTable(Val(last_op.sent).reply_blinding)
    /\ \A k \in AllCmds :
        (/\ last_op.name = "recv_onion_message"
         /\ Val(last_op.om).blinding_in = Some(k)
         /\ key_owner[k] # 0
         /\ pc[key_owner[k]] = "freed") => last_op.sent = NULL /\ last_op.cmd = 0

\* A command pending in the table was freed while another stayed pending.
C7_Witness ==
    /\ last_op.name = "cmd_freed"
    /\ last_op.sent # NULL
    /\ Len(sent_list) >= 1

\* C8: every entry of the table belongs to a command whose sendonionmessage
\* has returned; a command still waiting for it has no entry under its
\* reply_blinding, and a message on that reply_blinding matches nothing.
C8_NoMatchBeforeSendReturns ==
    /\ \A i \in 1..Len(sent_list) :
        pc[sent_list[i].cmd] = "pending" /\ has_destructor[sent_list[i].cmd]
    /\ \A c \in AllCmds : pc[c] = "sendonionmessage" =>
        /\ ~InTable(Val(cmd_blinding[c]))
        /\ (/\ last_op.name = "recv_onion_message"
            /\ Val(last_op.om).blinding_in = cmd_blinding[c]) => last_op.sent = NULL

\* A reply arrived on the reply_blinding of a command whose sendonionmessage
\* had not returned yet.
C8_Witness ==
    /\ HookIgnored
    /\ \E c \in Cmds :
        /\ pc[c] = "sendonionmessage"
        /\ Val(last_op.om).blinding_in = cmd_blinding[c]
        /\ Val(last_op.om).invoice # NULL

\* C9: a message that matches an entry completes the command of the entry
\* with the message's blinding_in and removes that entry only; every other
\* entry and every other command is unchanged.
C9_OnlyMatchedExchangeCompleted ==
    [][(last_op'.name = "recv_onion_message" /\ last_op'.sent # NULL) =>
        LET e == Val(last_op'.sent)
            a == last_op'.cmd
        IN /\ Some(e.reply_blinding) = Val(last_op'.om).blinding_in
           /\ a = e.cmd
           /\ \E i \in 1..Len(sent_list) : sent_list[i] = e
           /\ sent_list' = SelectSeq(sent_list, LAMBDA x : x.reply_blinding # e.reply_blinding)
           /\ Len(sent_list') = Len(sent_list) - 1
           /\ pc[a] = "pending" /\ pc'[a] = "completed"
           /\ \A c \in AllCmds \ {a} :
                /\ pc'[c] = pc[c]
                /\ completions'[c] = completions[c]
                /\ cmd_offer'[c] = cmd_offer[c]
                /\ cmd_invreq'[c] = cmd_invreq[c]
                /\ cmd_blinding'[c] = cmd_blinding[c]
                /\ has_destructor'[c] = has_destructor[c]]_vars

\* A reply completed the second of two outstanding exchanges; the first is
\* still in the table.
C9_Witness ==
    /\ HookMatched
    /\ Len(sent_list) >= 1
    /\ \E i \in 1..Len(sent_list) :
        /\ pc[sent_list[i].cmd] = "pending"
        /\ sent_list[i].reply_blinding < Val(last_op.sent).reply_blinding

\* C10: a matched message with an invoice_error fails the command with
\* OFFER_BAD_INVREQ_REPLY and no invoice, whether or not it carries an
\* invoice too; the failure carries erroneous_field, suggested_value and
\* error when the invoice_error decodes and its hex when not; the entry
\* leaves the table.
C10_InvoiceErrorFailsCommand ==
    (HookMatched /\ Val(last_op.om).invoice_error # NULL) =>
        LET err == Val(Val(last_op.om).invoice_error)
            res == Val(last_op.result)
        IN /\ res.kind = "error"
           /\ res.code = OFFER_BAD_INVREQ_REPLY
           /\ res.invoice = NULL
           /\ res.details # NULL
           /\ IF err.decodes
              THEN /\ Val(res.details).erroneous_field = err.erroneous_field
                   /\ Val(res.details).suggested_value = err.suggested_value
                   /\ Val(res.details).error # NULL
                   /\ err.error # NULL => Val(res.details).error = err.error
                   /\ Val(res.details).invoice_error_hex = NULL
              ELSE /\ Val(res.details).invoice_error_hex = Some(err.hex)
                   /\ Val(res.details).erroneous_field = NULL
                   /\ Val(res.details).suggested_value = NULL
                   /\ Val(res.details).error = NULL
           /\ pc[last_op.cmd] = "completed"
           /\ last_op.cmd = Val(last_op.sent).cmd
           /\ ~InTable(Val(last_op.sent).reply_blinding)

\* A reply carried an invoice_error that decodes together with an invoice
\* that passes every check.
C10_Witness ==
    /\ HookMatched
    /\ Val(last_op.om).invoice_error # NULL
    /\ Val(Val(last_op.om).invoice_error).decodes
    /\ Val(Val(last_op.om).invoice_error).erroneous_field # NULL
    /\ Val(last_op.om).invoice # NULL
    /\ badfield(Val(last_op.sent), Val(Val(last_op.om).invoice)) = ""

\* The result model: ReplyCmds commands on every kind of offer, each
\* answered by an invoice of ResultMsgs.
InitResult ==
    /\ pc = [c \in AllCmds |-> "new"]
    /\ cmd_offer = [c \in AllCmds |-> NULL]
    /\ cmd_invreq = [c \in AllCmds |-> NULL]
    /\ cmd_label = [c \in AllCmds |-> NULL]
    /\ cmd_blinding = [c \in AllCmds |-> NULL]
    /\ has_destructor = [c \in AllCmds |-> FALSE]
    /\ sent_list = << >>
    /\ next_blinding = 1
    /\ completions = [c \in AllCmds |-> << >>]
    /\ key_owner = [k \in AllCmds |-> 0]
    /\ last_op = Op("init", 0, NULL, NULL, NULL)
    /\ last_call = NULL
    /\ payments = ResultPayments
    /\ offers = NoOffers
    /\ ds = decomm_state_init
    /\ decomm_cmds = NoDecommCmds

NextResult ==
    \/ \E c \in 1..ReplyCmds, call \in ResultCalls : json_fetchinvoice(c, call[1], call[2], 0)
    \/ \E c \in 1..ReplyCmds : forward_error_invreq(c, 1)
    \/ \E c \in 1..ReplyCmds : invreq_done(c, 1, "ok")
    \/ \E c \in 1..ReplyCmds : sendonionmsg_done(c)
    \/ \E om \in ResultMsgs(sent_list) : recv_onion_message(om)

SpecResult == InitResult /\ [][NextResult]_vars

\* The hook completed a command with an invoice.
HookSuccess ==
    HookMatched /\ Val(last_op.result).kind = "success"

\* offer.amount times max(quantity, 1) for an offer with an amount and no
\* currency, NULL otherwise.
C11_ClaimedExpected(sent) ==
    LET q == IF sent.invreq.quantity = NULL \/ sent.invreq.quantity = Some(0) THEN 1 ELSE Val(sent.invreq.quantity)
    IN IF sent.offer.amount # NULL /\ sent.offer.currency = NULL
       THEN Some(Val(sent.offer.amount) * q)
       ELSE NULL

\* C11: the expected amount of a validated invoice is offer.amount times
\* max(quantity, 1) when the offer has an amount and no currency and none
\* otherwise (changes.msat is left out exactly when the invoice's amount is
\* that amount); a product that does not fit fails the command with
\* "quantity overflow".
C11_ExpectedAmountIsAmountTimesQuantity ==
    /\ HookSuccess =>
        LET e == C11_ClaimedExpected(Val(last_op.sent))
        IN /\ e # NULL => Val(e) <= MaxU64
           /\ (Val(Val(last_op.result).changes).msat = NULL) <=>
                (e # NULL /\ Val(Val(last_op.result).invoice).amount = e)
    /\ (/\ HookMatched
        /\ Val(last_op.om).invoice = Some(GoodInvoice(Val(last_op.sent)))
        /\ Val(last_op.om).invoice_error = NULL
        /\ C11_ClaimedExpected(Val(last_op.sent)) # NULL
        /\ Val(C11_ClaimedExpected(Val(last_op.sent))) > MaxU64) =>
            /\ Val(last_op.result).kind = "error"
            /\ Val(last_op.result).msg = "quantity overflow"

\* The amount recv_onion_message expects: offer.amount, times the request's
\* quantity when it has one, for an offer with an amount and no currency.
C12_Expected(sent) ==
    IF sent.offer.amount # NULL /\ sent.offer.currency = NULL
    THEN Some(Val(sent.offer.amount) * (IF sent.invreq.quantity = NULL THEN 1 ELSE Val(sent.invreq.quantity)))
    ELSE NULL

\* C12: in a success result changes.msat is present iff there is no expected
\* amount or the invoice's amount differs from it, and then it is the
\* invoice's amount; an invoice that differs from the one asked for in its
\* amount only is not a failure.
C12_MsatIffUnexpectedAmount ==
    /\ HookSuccess =>
        LET e == C12_Expected(Val(last_op.sent))
            I == Val(Val(last_op.result).invoice)
            msat == Val(Val(last_op.result).changes).msat
        IN /\ (msat # NULL) <=> (e = NULL \/ I.amount # e)
           /\ msat # NULL => msat = I.amount
    /\ (/\ HookMatched
        /\ Val(last_op.om).invoice_error = NULL
        /\ Val(last_op.om).invoice # NULL
        /\ Val(Val(last_op.om).invoice).amount # NULL
        /\ [Val(Val(last_op.om).invoice) EXCEPT !.amount = Some(1)] = GoodInvoice(Val(last_op.sent))
        /\ C12_Expected(Val(last_op.sent)) # NULL => Val(C12_Expected(Val(last_op.sent))) <= MaxU64) =>
            Val(last_op.result).kind = "success"

\* An invoice for another amount than the expected one was returned, with
\* its amount as changes.msat.
C12_Witness ==
    /\ HookSuccess
    /\ C12_Expected(Val(last_op.sent)) = Some(4)
    /\ Val(Val(last_op.result).invoice).amount = Some(8)
    /\ Val(Val(last_op.result).changes).msat = Some(8)

\* C13: in a success result no description key is emitted when the invoice's
\* description is the offer's; otherwise exactly one: description_appended
\* with the suffix when the invoice's description is the offer's with
\* something appended, else description_removed with the offer's description
\* when the invoice has none, else description with the invoice's.
C13_DescriptionChange ==
    HookSuccess =>
        LET od == Val(last_op.sent).offer.description
            id == Val(Val(last_op.result).invoice).description
            ch == Val(Val(last_op.result).changes)
            startswith == /\ id # NULL /\ od # NULL
                          /\ Len(Val(id)) > Len(Val(od))
                          /\ SubSeq(Val(id), 1, Len(Val(od))) = Val(od)
        IN IF od = id
           THEN ch.description_appended = NULL /\ ch.description_removed = NULL /\ ch.description = NULL
           ELSE IF startswith
           THEN /\ ch.description_appended # NULL
                /\ Val(od) \o Val(ch.description_appended) = Val(id)
                /\ ch.description_removed = NULL /\ ch.description = NULL
           ELSE IF id = NULL
           THEN /\ ch.description_removed = od
                /\ ch.description_appended = NULL /\ ch.description = NULL
           ELSE /\ ch.description = id
                /\ ch.description_appended = NULL /\ ch.description_removed = NULL

\* The invoice for the offer "coffee" came back as "coffee (decaf)".
C13_Witness ==
    /\ HookSuccess
    /\ Val(last_op.sent).offer.description = Some("coffee")
    /\ Val(Val(last_op.result).changes).description_appended = Some(" (decaf)")

\* next_period_idx of a sent request: recurrence_start (0 when unset) plus
\* recurrence_counter plus one.
ClaimedNextIdx(sent) ==
    (IF sent.invreq.recurrence_start = NULL THEN 0 ELSE Val(sent.invreq.recurrence_start))
        + Val(sent.invreq.recurrence_counter) + 1

\* C14: a success result has next_period iff the offer has recurrence and
\* recurrence_limit is unset or next_period_idx is at most recurrence_limit;
\* its counter is the request's recurrence_counter plus one.
C14_NextPeriodIffRecurringWithinLimit ==
    HookSuccess =>
        LET sent == Val(last_op.sent)
            np == Val(last_op.result).next_period
        IN /\ (np # NULL) <=>
                /\ sent.offer.recurrence # NULL
                /\ \/ sent.offer.recurrence_limit = NULL
                   \/ ClaimedNextIdx(sent) <= Val(sent.offer.recurrence_limit)
           /\ np # NULL => Val(np).counter = Val(sent.invreq.recurrence_counter) + 1

\* A recurring offer's last period was fetched: the result has no
\* next_period.
C14_Witness ==
    /\ HookSuccess
    /\ Val(last_op.sent).offer.recurrence # NULL
    /\ Val(last_op.sent).offer.recurrence_limit # NULL
    /\ ClaimedNextIdx(Val(last_op.sent)) > Val(Val(last_op.sent).offer.recurrence_limit)
    /\ Val(last_op.result).next_period = NULL

\* The length in seconds of the period of a sent request's offer.
ClaimedDuration(sent) ==
    IF Val(sent.offer.recurrence).time_unit = 0
    THEN Val(sent.offer.recurrence).period
    ELSE Val(sent.offer.recurrence).period * 86400

\* C15, as claimed: next_period starts at recurrence_basetime +
\* d * (next_period_idx - 1) and ends at recurrence_basetime +
\* d * next_period_idx - 1.
C15_NextPeriodTimesOneBased ==
    (HookSuccess /\ Val(last_op.result).next_period # NULL) =>
        LET sent == Val(last_op.sent)
            b == Val(Val(Val(last_op.result).invoice).recurrence_basetime)
            np == Val(Val(last_op.result).next_period)
        IN /\ np.starttime = b + ClaimedDuration(sent) * (ClaimedNextIdx(sent) - 1)
           /\ np.endtime = b + ClaimedDuration(sent) * ClaimedNextIdx(sent) - 1

\* C15, amended: next_period starts at recurrence_basetime +
\* d * next_period_idx and ends at recurrence_basetime +
\* d * (next_period_idx + 1) - 1, with the basetime of the invoice.
C15_NextPeriodTimes ==
    (HookSuccess /\ Val(last_op.result).next_period # NULL) =>
        LET sent == Val(last_op.sent)
            b == Val(Val(Val(last_op.result).invoice).recurrence_basetime)
            np == Val(Val(last_op.result).next_period)
        IN /\ np.starttime = b + ClaimedDuration(sent) * ClaimedNextIdx(sent)
           /\ np.endtime = b + ClaimedDuration(sent) * (ClaimedNextIdx(sent) + 1) - 1

\* The second period of a series that started at period 1 was fetched, of
\* an offer with a period in seconds.
C15_Witness ==
    /\ HookSuccess
    /\ Val(last_op.result).next_period # NULL
    /\ Val(last_op.sent).offer.recurrence # NULL
    /\ Val(Val(last_op.sent).offer.recurrence).time_unit = 0
    /\ Val(last_op.sent).invreq.recurrence_counter = Some(1)
    /\ Val(last_op.sent).invreq.recurrence_start = Some(1)

InitPay ==
    /\ pc = [c \in AllCmds |-> "new"]
    /\ cmd_offer = [c \in AllCmds |-> NULL]
    /\ cmd_invreq = [c \in AllCmds |-> NULL]
    /\ cmd_label = [c \in AllCmds |-> NULL]
    /\ cmd_blinding = [c \in AllCmds |-> NULL]
    /\ has_destructor = [c \in AllCmds |-> FALSE]
    /\ sent_list = << >>
    /\ next_blinding = 1
    /\ completions = [c \in AllCmds |-> << >>]
    /\ key_owner = [k \in AllCmds |-> 0]
    /\ last_op = Op("init", 0, NULL, NULL, NULL)
    /\ last_call = NULL
    /\ payments \in PaymentStores
    /\ offers = NoOffers
    /\ ds = decomm_state_init
    /\ decomm_cmds = NoDecommCmds

NextPay ==
    \/ \E c \in 1..ReplyCmds, call \in PayCalls : json_fetchinvoice(c, call[1], call[2], 0)
    \/ \E c \in 1..ReplyCmds : forward_error_invreq(c, 1)
    \/ \E c \in 1..ReplyCmds : invreq_done(c, 1, "ok")
    \/ \E c \in 1..ReplyCmds : sendonionmsg_done(c)

SpecPay == InitPay /\ [][NextPay]_vars

\* The reply of createinvoicerequest was handled for a request with
\* recurrence_counter > 0.
LaterPeriodReply ==
    /\ last_call # NULL
    /\ Val(last_call).invreq # NULL
    /\ Val(Val(last_call).invreq).recurrence_counter \notin {NULL, Some(0)}

\* The payments of the wallet with the label and offer_id of the request.
PriorPayments ==
    {i \in 1..Len(payments) :
        /\ payments[i].label = Val(last_call).label
        /\ payments[i].inv # NULL
        /\ Val(payments[i].inv).offer_id = Val(Val(last_call).invreq).offer_id}

\* One of them is the completed payment of the period before.
PrevPeriodPaid ==
    \E i \in PriorPayments :
        /\ Val(payments[i].inv).recurrence_counter = Some(Val(Val(Val(last_call).invreq).recurrence_counter) - 1)
        /\ payments[i].status = "complete"

\* The command of the request has sent no onion message and has no entry.
NothingSent ==
    /\ \A k \in AllCmds : key_owner[k] # Val(last_call).cmd
    /\ \A i \in 1..Len(sent_list) : sent_list[i].cmd # Val(last_call).cmd

NextParams ==
    \/ \E c \in 1..ReplyCmds, call \in ParamCalls : json_fetchinvoice(c, call[1], call[2], 0)
    \/ \E c \in 1..ReplyCmds : forward_error_invreq(c, 1)
    \/ \E c \in 1..ReplyCmds : invreq_done(c, 1, "ok")
    \/ \E c \in 1..ReplyCmds : sendonionmsg_done(c)

SpecParams == Init /\ [][NextParams]_vars

\* json_fetchinvoice ran last.
FetchCalled ==
    last_op.name = "json_fetchinvoice"

\* It failed the command with invalid-params.
FetchRejected ==
    /\ last_op.result # NULL
    /\ Val(last_op.result).kind = "error"
    /\ Val(last_op.result).code = JSONRPC2_INVALID_PARAMS
    /\ pc[Val(last_call).cmd] = "completed"

\* It built the request and went on to createinvoicerequest.
FetchProceeded ==
    /\ last_op.result = NULL
    /\ pc[Val(last_call).cmd] = "createinvoicerequest"

C19_QuantityInRange ==
    FetchCalled =>
        LET o == Val(last_call).offer
            q == Val(Val(last_call).params).quantity
            min == IF o.quantity_min = NULL THEN 1 ELSE Val(o.quantity_min)
        IN IF o.quantity_min # NULL \/ o.quantity_max # NULL
           THEN /\ q = NULL => FetchRejected
                /\ (q # NULL /\ Val(q) < min) => FetchRejected
                /\ (q # NULL /\ o.quantity_max # NULL /\ Val(q) > Val(o.quantity_max)) => FetchRejected
           ELSE q # NULL => FetchRejected

NextFetch ==
    \/ \E c \in 1..ReplyCmds, call \in FetchCalls, now \in 0..MaxTime : json_fetchinvoice(c, call[1], call[2], now)
    \/ \E c \in 1..ReplyCmds : forward_error_invreq(c, 1)
    \/ \E c \in 1..ReplyCmds, route \in Routes : invreq_done(c, 1, route)
    \/ \E c \in 1..ReplyCmds : sendonionmsg_done(c)
    \/ \E c \in 1..ReplyCmds : forward_error_send(c)
    \/ \E om \in EngineMsgs(sent_list) : recv_onion_message(om)

SpecFetch == Init /\ [][NextFetch]_vars

\* json_fetchinvoice failed the command with this code: no request was
\* built and nothing was sent.
FetchFailedWith(code) ==
    /\ last_op.result # NULL
    /\ Val(last_op.result).kind = "error"
    /\ Val(last_op.result).code = code
    /\ pc[Val(last_call).cmd] = "completed"
    /\ cmd_invreq[Val(last_call).cmd] = NULL
    /\ \A i \in 1..Len(sent_list) : sent_list[i].cmd # Val(last_call).cmd

\* json_fetchinvoice was called on an offer whose absolute_expiry is
\* earlier than the time of the call.
CalledExpired ==
    /\ FetchCalled
    /\ Val(last_call).offer.absolute_expiry # NULL
    /\ Val(Val(last_call).offer.absolute_expiry) < Val(Val(last_call).now)

\* C21 as claimed: fetchinvoice on an offer whose absolute_expiry is earlier
\* than the current time fails with OFFER_EXPIRED whatever else the call
\* holds, without building a request or sending a message; an offer whose
\* absolute_expiry is the current time, or which has none, is not failed
\* with OFFER_EXPIRED.
C21_ExpiredAlwaysOfferExpired ==
    /\ CalledExpired => FetchFailedWith(OFFER_EXPIRED)
    /\ (FetchCalled /\ ~CalledExpired /\ last_op.result # NULL) =>
            Val(last_op.result).code # OFFER_EXPIRED

\* C21: fetchinvoice on an offer that has a node_id and a description, does
\* not set send_invoice and whose absolute_expiry is earlier than the current time
\* fails with OFFER_EXPIRED whatever the parameters, without building a
\* request or sending a message; an offer whose absolute_expiry is the
\* current time, or which has none, is not failed with OFFER_EXPIRED.
C21_ExpiredOfferRejected ==
    /\ (CalledExpired /\ Val(last_call).offer.node_id # NULL /\ Val(last_call).offer.description # NULL /\ ~Val(last_call).offer.send_invoice) =>
            FetchFailedWith(OFFER_EXPIRED)
    /\ (FetchCalled /\ ~CalledExpired /\ last_op.result # NULL) =>
            Val(last_op.result).code # OFFER_EXPIRED

\* An offer that expired at 1 is refused at 2 although the call gives an
\* amount the offer has no use for.
C21_Witness ==
    /\ CalledExpired
    /\ Val(last_call).offer = OfferExpiring
    /\ Val(Val(last_call).params).msatoshi # NULL
    /\ FetchFailedWith(OFFER_EXPIRED)

\* C22: fetchinvoice on an offer with send_invoice set always fails with
\* invalid-params and never builds an invoice_request, sends an onion
\* message or inserts an entry: no command goes on with such an offer and
\* no entry holds one.
C22_SendInvoiceRefused ==
    /\ (FetchCalled /\ Val(last_call).offer.send_invoice) => FetchFailedWith(JSONRPC2_INVALID_PARAMS)
    /\ \A c \in AllCmds : cmd_offer[c] # NULL => ~Val(cmd_offer[c]).send_invoice
    /\ \A i \in 1..Len(sent_list) : ~sent_list[i].offer.send_invoice

\* A send_invoice offer that has not expired is refused although the
\* parameters are those its amount asks for.
C22_Witness ==
    /\ FetchCalled
    /\ Val(last_call).offer = OfferSendInvoice
    /\ Val(Val(last_call).params).msatoshi = NULL
    /\ Val(Val(last_call).params).quantity = NULL
    /\ FetchFailedWith(JSONRPC2_INVALID_PARAMS)
    /\ Val(last_op.result).msg = "Offer wants an invoice, not invoice_request"

\* Command c has an entry in the table.
HasEntry(list, c) ==
    \E i \in 1..Len(list) : list[i].cmd = c

\* A step in which json_fetchinvoice, forward_error or send_message fails
\* command c: on its input, on the reply of createinvoicerequest, on
\* routing or on the reply of sendonionmessage.
FetchFails(c) ==
    /\ pc[c] \in {"new", "createinvoicerequest", "sendonionmessage"}
    /\ pc'[c] = "completed"

\* C23: when fetchinvoice fails on its input, on createinvoicerequest, on
\* routing or on the transport send, the failure goes to the invoking
\* command and no entry of that command was or is inserted; an entry exists
\* only for a command whose sendonionmessage has returned successfully.
C23_FailureLeavesNoEntry ==
    /\ [](\A c \in AllCmds : HasEntry(sent_list, c) => pc[c] = "pending" /\ has_destructor[c])
    /\ [][\A c \in AllCmds : FetchFails(c) =>
            /\ last_op'.cmd = c
            /\ last_op'.name \in {"json_fetchinvoice", "forward_error", "send_message"}
            /\ Val(last_op'.result).kind = "error"
            /\ ~HasEntry(sent_list, c)
            /\ ~HasEntry(sent_list', c)
            /\ sent_list' = sent_list]_vars

\* sendonionmessage failed: the command has the error and the table has no
\* entry for it.
C23_Witness ==
    /\ last_op.name = "forward_error"
    /\ last_op.result # NULL
    /\ Val(last_op.result).msg = "sendonionmessage failed"
    /\ pc[last_op.cmd] = "completed"
    /\ ~HasEntry(sent_list, last_op.cmd)

\* ------------------------------------------------------ the offer model

\* The offer model: createoffer, listoffers and disableoffer calls in any
\* order, on a wallet that starts with any table of StoredOffers.
InitOffers ==
    /\ pc = [c \in AllCmds |-> "new"]
    /\ cmd_offer = [c \in AllCmds |-> NULL]
    /\ cmd_invreq = [c \in AllCmds |-> NULL]
    /\ cmd_label = [c \in AllCmds |-> NULL]
    /\ cmd_blinding = [c \in AllCmds |-> NULL]
    /\ has_destructor = [c \in AllCmds |-> FALSE]
    /\ sent_list = << >>
    /\ next_blinding = 1
    /\ completions = [c \in AllCmds |-> << >>]
    /\ key_owner = [k \in AllCmds |-> 0]
    /\ last_op = Op("init", 0, NULL, NULL, NULL)
    /\ last_call = NULL
    /\ payments = << >>
    /\ offers \in StoredOffers
    /\ ds = decomm_state_init
    /\ decomm_cmds = NoDecommCmds

NextOffers ==
    \/ \E call \in CreateCalls : json_createoffer(call[1], call[2], call[3], call[4])
    \/ \E offer_id \in {NULL} \cup {Some(id) : id \in OfferIdParams}, active_only \in {NULL, Some(FALSE), Some(TRUE)} : json_listoffers(offer_id, active_only)
    \/ \E offer_id \in OfferIdParams : json_disableoffer(offer_id)

SpecOffers == InitOffers /\ [][NextOffers]_vars

\* The step is a disableoffer call on offer_id.
DisableCalled(offer_id) ==
    /\ last_op'.name = "json_disableoffer"
    /\ Val(last_call').offer_id = Some(offer_id)

\* The offer_ids whose row in the table has one of these statuses.
OffersIn(statuses) ==
    {id \in OfferIds : offers[id] # NULL /\ Val(offers[id]).status \in statuses}

\* C24 as claimed: disableoffer on an offer that is single_disabled or
\* multi_disabled succeeds and leaves the table as it is.
C24_DisableDisabledSucceeds ==
    [][\A id \in OffersIn({OFFER_SINGLE_DISABLED, OFFER_MULTIPLE_DISABLED}) :
        DisableCalled(id) =>
            /\ Val(last_op'.result).kind = "success"
            /\ offers' = offers]_vars

\* C24: disableoffer on an offer that is single_disabled or multi_disabled
\* fails with OFFER_ALREADY_DISABLED and leaves the table as it is, so
\* disable;disable ends in the state a single disable ends in.
C24_DisableDisabledFails ==
    [][\A id \in OffersIn({OFFER_SINGLE_DISABLED, OFFER_MULTIPLE_DISABLED}) :
        DisableCalled(id) =>
            /\ Val(last_op'.result).kind = "error"
            /\ Val(last_op'.result).code = OFFER_ALREADY_DISABLED
            /\ offers' = offers]_vars

\* disableoffer has refused an offer that is single_disabled.
C24_Witness ==
    /\ last_op.name = "json_disableoffer"
    /\ Val(last_op.result).kind = "error"
    /\ Val(last_op.result).code = OFFER_ALREADY_DISABLED
    /\ Val(Val(last_call).offer_id) \in OffersIn({OFFER_SINGLE_DISABLED})

\* C25: disableoffer on an offer that is used fails with
\* OFFER_ALREADY_DISABLED and on an offer_id without a row with "Unknown
\* offer"; both leave the table as it is.
C25_DisableUsedOrUnknownFails ==
    [][/\ \A id \in OffersIn({OFFER_USED}) :
            DisableCalled(id) =>
                /\ Val(last_op'.result).kind = "error"
                /\ Val(last_op'.result).code = OFFER_ALREADY_DISABLED
                /\ offers' = offers
                /\ Val(offers'[id]).status = OFFER_USED
       /\ \A id \in OfferIdParams :
            (DisableCalled(id) /\ wallet_offer_find(offers, id) = NULL) =>
                /\ Val(last_op'.result).kind = "error"
                /\ Val(last_op'.result).code = LIGHTNINGD
                /\ Val(last_op'.result).msg = "Unknown offer"
                /\ offers' = offers]_vars

\* disableoffer has refused an offer that is used, and the table holds
\* another offer that is active.
C25_Witness ==
    /\ last_op.name = "json_disableoffer"
    /\ Val(last_op.result).kind = "error"
    /\ Val(last_op.result).code = OFFER_ALREADY_DISABLED
    /\ Val(Val(last_call).offer_id) \in OffersIn({OFFER_USED})
    /\ OffersIn({OFFER_SINGLE_USE, OFFER_MULTIPLE_USE}) # {}

\* What the step's command reports about offer_id: the entries of its
\* result for that offer, none if it failed.
Reported(offer_id) ==
    IF Val(last_op'.result).kind = "success"
    THEN {Val(last_op'.result).offers[k] : k \in {j \in 1..Len(Val(last_op'.result).offers) : Val(last_op'.result).offers[j].offer_id = offer_id}}
    ELSE {}

\* C26: over createoffer, listoffers and disableoffer calls a stored offer
\* keeps its row; its status changes only by disableoffer on it, from
\* single_use to single_disabled or from multi_use to multi_disabled; once
\* it is single_disabled or multi_disabled its row never changes and no
\* command reports it active.
C26_StatusOnlyDisabled ==
    [][\A id \in OfferIds : offers[id] # NULL =>
        /\ offers'[id] # NULL
        /\ Val(offers'[id]).status # Val(offers[id]).status =>
            /\ DisableCalled(id)
            /\ << Val(offers[id]).status, Val(offers'[id]).status >> \in
                    {<< OFFER_SINGLE_USE, OFFER_SINGLE_DISABLED >>, << OFFER_MULTIPLE_USE, OFFER_MULTIPLE_DISABLED >>}
        /\ Val(offers[id]).status \in {OFFER_SINGLE_DISABLED, OFFER_MULTIPLE_DISABLED} =>
            /\ offers'[id] = offers[id]
            /\ \A r \in Reported(id) : ~r.active]_vars

\* disableoffer has turned a single_use offer into single_disabled and
\* reports it as not active.
C26_Witness ==
    /\ last_op.name = "json_disableoffer"
    /\ Val(last_op.result).kind = "success"
    /\ Val(Val(last_call).offer_id) \in OffersIn({OFFER_SINGLE_DISABLED})
    /\ ~Val(last_op.result).offers[1].active
    /\ Val(last_op.result).offers[1].single_use

\* C27: createoffer of an unsigned offer whose merkle root has no row stores
\* one under that root, single_use if single_use is true and multi_use
\* otherwise, and touches no other row; if the root has a row it fails with
\* OFFER_ALREADY_EXISTS and leaves the table as it is, whatever the label,
\* the single_use flag and the status of the row.
C27_CreateStoresOrDuplicate ==
    [][(last_op'.name = "json_createoffer" /\ ~Val(last_call').signed) =>
        LET call == Val(last_call')
            id == merkle_tlv(Val(call.offer))
        IN /\ call.offer_id = Some(id)
           /\ IF offers[id] = NULL
              THEN /\ Val(last_op'.result).kind = "success"
                   /\ offers'[id] # NULL
                   /\ Val(offers'[id]).status = (IF call.flag = Some(TRUE) THEN OFFER_SINGLE_USE ELSE OFFER_MULTIPLE_USE)
                   /\ Val(offers'[id]).label = call.label
                   /\ \A other \in OfferIds \ {id} : offers'[other] = offers[other]
              ELSE /\ Val(last_op'.result).kind = "error"
                   /\ Val(last_op'.result).code = OFFER_ALREADY_EXISTS
                   /\ offers' = offers]_vars

\* createoffer with a label and single_use was refused for an offer that
\* is stored without label and multi_disabled.
C27_Witness ==
    /\ last_op.name = "json_createoffer"
    /\ Val(last_op.result).kind = "error"
    /\ Val(last_op.result).code = OFFER_ALREADY_EXISTS
    /\ Val(last_call).label # NULL
    /\ Val(last_call).flag = Some(TRUE)
    /\ Val(Val(last_call).offer_id) \in OffersIn({OFFER_MULTIPLE_DISABLED})
    /\ Val(offers[Val(Val(last_call).offer_id)]).label = NULL

\* ----------------------------------------------- the decommission model

\* The decommission model: MaxDecomm decommission commands with and without
\* address and timeout, the replies to their listpeers requests, and
\* recommission and commissionstate commands, in any order.
NextDecomm ==
    \/ \E c \in 1..MaxDecomm, address_or_xpub \in {NULL, Some("bc1q")}, timeout \in {NULL, Some(60)} : json_decommission(c, address_or_xpub, timeout)
    \/ \E c \in 1..MaxDecomm, outcome \in {"delivered", "lost", "crashed"} : listpeers_done(c, outcome)
    \/ json_recommission
    \/ json_commissionstate

SpecDecomm == Init /\ [][NextDecomm]_vars

\* C28: decommission succeeds only in state COMMISSIONED and then the state
\* is DECOMMISSIONING; in DECOMMISSIONING it fails with "Decommissioning
\* already in progress", in DECOMMISSIONED with "Node already
\* decommissioned.", and a failed decommission leaves the state as it is.
C28_DecommissionOnlyWhenCommissioned ==
    [][last_op'.name = "json_decommission" =>
        IF ds.state = COMMISSIONED
        THEN /\ Val(last_op'.result).kind = "success"
             /\ ds'.state = DECOMMISSIONING
        ELSE /\ Val(last_op'.result).kind = "error"
             /\ ds.state = DECOMMISSIONING => Val(last_op'.result).msg = "Decommissioning already in progress"
             /\ ds.state = DECOMMISSIONED => Val(last_op'.result).msg = "Node already decommissioned."
             /\ ds'.state = ds.state]_vars

\* A second decommission failed while the first is in progress.
C28_Witness ==
    /\ last_op.name = "json_decommission"
    /\ Val(last_op.result).kind = "error"
    /\ Val(last_op.result).msg = "Decommissioning already in progress"
    /\ ds.state = DECOMMISSIONING
    /\ \E c \in 1..MaxDecomm : decomm_cmds[c].results # << >> /\ decomm_cmds[c].results[1].kind = "success"

\* C29: recommission in state DECOMMISSIONING or DECOMMISSIONED succeeds
\* and sets the state to COMMISSIONED, and a decommission that follows
\* succeeds; in state COMMISSIONED it fails with "Node still active." and
\* leaves the state as it is.
C29_RecommissionCancels ==
    [][/\ last_op'.name = "json_recommission" =>
            IF ds.state = COMMISSIONED
            THEN /\ Val(last_op'.result).kind = "error"
                 /\ Val(last_op'.result).msg = "Node still active."
                 /\ ds'.state = COMMISSIONED
            ELSE /\ Val(last_op'.result).kind = "success"
                 /\ ds'.state = COMMISSIONED
       /\ (/\ last_op.name = "json_recommission"
           /\ Val(last_op.result).kind = "success"
           /\ last_op'.name = "json_decommission") =>
                /\ Val(last_op'.result).kind = "success"
                /\ ds'.state = DECOMMISSIONING]_vars

\* A decommission succeeded right after a recommission had cancelled an
\* earlier one.
C29_Witness ==
    /\ last_op.name = "json_decommission"
    /\ Val(last_op.result).kind = "success"
    /\ ds.state = DECOMMISSIONING
    /\ \E c \in 1..MaxDecomm :
        /\ c # last_op.cmd
        /\ decomm_cmds[c].results # << >>
        /\ decomm_cmds[c].results[1].kind = "success"

\* ------------------------------------------------- removal on a reply

\* What the matched message held: an invoice_error, an invoice the hook
\* accepted, an invoice it rejected, or neither field.
HookOutcome ==
    IF Val(last_op.om).invoice_error # NULL THEN "invoice_error"
    ELSE IF Val(last_op.om).invoice = NULL THEN "neither"
    ELSE IF Val(last_op.result).kind = "success" THEN "accepted"
    ELSE "rejected"

\* C30: once the hook has handled a message that matched an entry, the
\* entry is gone whatever the message held: a lookup of its reply_blinding
\* misses and its command has its result.
C30_MatchedEntryRemoved ==
    HookMatched =>
        /\ HookOutcome \in {"invoice_error", "neither", "accepted", "rejected"}
        /\ find_sent(sent_list, Val(last_op.sent).reply_blinding) = NULL
        /\ \A i \in 1..Len(sent_list) : sent_list[i].cmd # Val(last_op.sent).cmd
        /\ pc[Val(last_op.sent).cmd] = "completed"

\* The hook matched a message with an invoice it rejected.
C30_Witness ==
    /\ HookMatched
    /\ HookOutcome = "rejected"
    /\ key_owner[Val(last_op.sent).reply_blinding] = Val(last_op.sent).cmd

\* The request createinvoicerequest returned for the command of last_call.
ReturnedRequest ==
    Val(cmd_invreq[Val(last_call).cmd])

\* C31: when createinvoicerequest succeeds with recurrence_counter c > 0, the
\* request's payer_info is that of a completed payment of the same label and
\* offer_id whose invoice has recurrence_counter c - 1, whatever other
\* payments of that label and offer_id the wallet holds.
C31_PayerInfoOfPrevPeriod ==
    (LaterPeriodReply /\ last_op.name = "send_message") =>
        \E i \in PriorPayments :
            /\ Val(payments[i].inv).recurrence_counter = Some(Val(Val(Val(last_call).invreq).recurrence_counter) - 1)
            /\ payments[i].status = "complete"
            /\ ReturnedRequest.payer_info = Val(payments[i].inv).payer_info

\* ------------------------------------- the createinvoicerequest command

\* What createinvoicerequest was called with.
InvreqCall(invreq, label, random) ==
    [cmd |-> 0, invreq |-> Some(invreq), label |-> label, random |-> random]

\* The success result of createinvoicerequest: the encoded request and, if
\* given, the label.
InvreqResult(invreq, label) ==
    [kind |-> "success", bolt12 |-> invreq, recurrence_label |-> label]

\* The createinvoicerequest command called on its own, with the request
\* invrequest_decode returns for the bolt12 parameter.
createinvoicerequest(invreq, label, random) ==
    LET reply == json_createinvoicerequest(payments, invreq, label, random)
    IN /\ last_op' = Op("json_createinvoicerequest", 0, Some(IF reply.fail # NULL THEN Val(reply.fail) ELSE InvreqResult(reply.invreq, label)), NULL, NULL)
       /\ last_call' = Some(InvreqCall(invreq, label, random))
       /\ UNCHANGED << fetch_vars, offers, ds, decomm_cmds >>

\* The requests the bolt12 parameter decodes to: of OfferLimited and
\* OfferRecurring, without recurrence_counter, for period 0 and for period 1,
\* with and without recurrence_start; and the same carrying a payer_info, a
\* payer_key or a recurrence_signature already.
InvreqRequests ==
    LET plain == {[tlv_invoice_request_new EXCEPT !.offer_id = Some(merkle_tlv(o)), !.recurrence_counter = n, !.recurrence_start = st] :
                     o \in {OfferLimited, OfferRecurring}, n \in {NULL, Some(0), Some(1)}, st \in {NULL, Some(1)}}
        signed == {r \in plain : r.offer_id = Some(merkle_tlv(OfferLimited)) /\ r.recurrence_start = Some(1) /\ r.recurrence_counter # Some(0)}
    IN plain
       \cup {[r EXCEPT !.payer_info = Some(9)] : r \in signed}
       \cup {[r EXCEPT !.payer_key = Some(<<"bolt12_base", 9>>)] : r \in signed}
       \cup {[r EXCEPT !.recurrence_signature = Some("recurrence_signature")] : r \in signed}

\* The 16 bytes randombytes_buf may return.
RandomBytes == {6, 7}

NextInvreq ==
    \E invreq \in InvreqRequests, label \in {NULL, Some("sub")}, random \in RandomBytes :
        createinvoicerequest(invreq, label, random)

SpecInvreq == InitPay /\ [][NextInvreq]_vars

\* createinvoicerequest was called; it failed; it returned a request.
InvreqCalled ==
    last_op.name = "json_createinvoicerequest"

InvreqFailed ==
    InvreqCalled /\ Val(last_op.result).kind = "error"

InvreqReturned ==
    InvreqCalled /\ Val(last_op.result).kind = "success"

\* C32: createinvoicerequest rejects an input request that carries
\* payer_info or payer_key; every request it returns has payer_info and
\* payer_key set, payer_info being the fresh random bytes when
\* recurrence_counter is absent or 0, and has recurrence_signature set if and
\* only if recurrence_counter is set; a request with recurrence_counter is
\* refused when no recurrence_label is given.
C32_ReturnedRequestComplete ==
    InvreqCalled =>
        LET in == Val(Val(last_call).invreq)
        IN /\ (in.payer_info # NULL \/ in.payer_key # NULL) => InvreqFailed
           /\ (in.recurrence_counter # NULL /\ Val(last_call).label = NULL) => InvreqFailed
           /\ InvreqReturned =>
               LET out == Val(last_op.result).bolt12
               IN /\ out.payer_info # NULL
                  /\ out.payer_key # NULL
                  /\ in.recurrence_counter \in {NULL, Some(0)} => out.payer_info = Some(Val(last_call).random)
                  /\ (out.recurrence_signature # NULL) <=> (out.recurrence_counter # NULL)

\* The payments of the request's label and offer_id whose invoice has a
\* recurrence_counter and whose recurrence_start is not the request's.
StartDisagrees ==
    {i \in PriorPayments :
        /\ Val(payments[i].inv).recurrence_counter # NULL
        /\ Val(payments[i].inv).recurrence_start # Val(Val(last_call).invreq).recurrence_start}

RecurrenceStartErrors ==
    {"unexpected recurrence_start", "recurrence_start was previously", "missing recurrence_start"}

\* C33: createinvoicerequest for a request with recurrence_counter > 0 fails
\* if a payment of the same label and offer_id with a recurrence_counter in
\* its invoice has another recurrence_start, or has one where the request
\* has none, or has none where the request has one; the failure of a request
\* that passed the parameter checks is a recurrence_start error; so a
\* returned request has the recurrence_start of every such payment.
C33_RecurrenceStartAgrees ==
    (InvreqCalled /\ LaterPeriodReply) =>
        LET in == Val(Val(last_call).invreq)
        IN /\ StartDisagrees # {} =>
               /\ InvreqFailed
               /\ (in.payer_info = NULL /\ in.payer_key = NULL) =>
                      /\ Val(last_op.result).code = JSONRPC2_INVALID_PARAMS
                      /\ Val(last_op.result).msg \in RecurrenceStartErrors
           /\ InvreqReturned =>
               \A i \in PriorPayments :
                   Val(payments[i].inv).recurrence_counter # NULL =>
                       Val(payments[i].inv).recurrence_start = Val(last_op.result).bolt12.recurrence_start

\* A request for period 1 started at period 1 failed because the wallet
\* holds a payment of the series started at period 2.
C33_Witness ==
    /\ InvreqFailed
    /\ LaterPeriodReply
    /\ Val(Val(last_call).invreq).recurrence_start = Some(1)
    /\ \E i \in StartDisagrees : Val(payments[i].inv).recurrence_start = Some(2)
    /\ Val(last_op.result).msg = "recurrence_start was previously"

\* ------------------------------------------- a reply with neither field

\* The step is the hook on a message with neither invoice nor invoice_error
\* whose blinding_in is the reply_blinding of an entry.
NeitherReplyStep ==
    /\ last_op'.name = "recv_onion_message"
    /\ Val(last_op'.om).invoice = NULL
    /\ Val(last_op'.om).invoice_error = NULL
    /\ Val(last_op'.om).blinding_in # NULL
    /\ InTable(Val(Val(last_op'.om).blinding_in))

\* C34: the hook on a message that matches an entry and holds neither
\* invoice nor invoice_error fails the entry's command with
\* OFFER_BAD_INVREQ_REPLY and removes the entry: the message is not ignored
\* and the command does not stay pending.
C34_NeitherFieldFails ==
    [][NeitherReplyStep =>
        LET sent == Val(find_sent(sent_list, Val(Val(last_op'.om).blinding_in)))
        IN /\ pc[sent.cmd] = "pending"
           /\ pc'[sent.cmd] = "completed"
           /\ completions'[sent.cmd] = Append(completions[sent.cmd], "recv_onion_message")
           /\ last_op'.cmd = sent.cmd
           /\ Val(last_op'.result).kind = "error"
           /\ Val(last_op'.result).code = OFFER_BAD_INVREQ_REPLY
           /\ find_sent(sent_list', sent.reply_blinding) = NULL
           /\ \A i \in 1..Len(sent_list') : sent_list'[i].cmd # sent.cmd]_vars

\* The hook failed a pending command on a message with neither field.
C34_Witness ==
    /\ HookMatched
    /\ HookOutcome = "neither"
    /\ Val(last_op.result).code = OFFER_BAD_INVREQ_REPLY
    /\ pc[Val(last_op.sent).cmd] = "completed"
    /\ sent_list = << >>

\* --------------------------------------------- entries and their commands

\* C35: every entry of sent_list belongs to a command that is still pending,
\* never to one that was completed or freed; and the hook completes only a
\* command that was pending.
C35_EntriesArePending ==
    /\ [](\A i \in 1..Len(sent_list) : pc[sent_list[i].cmd] = "pending")
    /\ [][\A c \in AllCmds :
            (last_op'.name = "recv_onion_message" /\ last_op'.cmd = c /\ completions'[c] # completions[c]) =>
                (pc[c] = "pending" /\ HasEntry(sent_list, c))]_vars

\* One command has been completed or freed after its onion message was sent
\* and has no entry any more, while another is pending with its entry.
C35_Witness ==
    \E c, d \in AllCmds :
        /\ pc[c] \in {"completed", "freed"}
        /\ \E k \in AllCmds : key_owner[k] = c
        /\ ~HasEntry(sent_list, c)
        /\ pc[d] = "pending"
        /\ HasEntry(sent_list, d)

\* ------------------------------------- completions of decommission

\* C36: a decommission command is completed exactly once: once
\* json_decommission has returned its result, the reply to the listpeers
\* request of close_all_channels does not complete the command again.
C36_DecommissionCompletedOnce ==
    \A c \in 1..MaxDecomm :
        /\ decomm_cmds[c].pc = "completed" => Len(decomm_cmds[c].results) = 1
        /\ Len(decomm_cmds[c].results) <= 1

\* C37: a decommission that fails because decommissioning is in progress
\* or done leaves ds.timeout and ds.address_or_xpub as they were.
C37_FailedDecommissionKeepsParams ==
    [][(last_op'.name = "json_decommission" /\ Val(last_op'.result).kind = "error") =>
        /\ ds'.timeout = ds.timeout
        /\ ds'.address_or_xpub = ds.address_or_xpub]_vars

\* The last handler was one of the three commands of the plugin.
DecommCommandRan ==
    last_op.name \in {"json_decommission", "json_recommission", "json_commissionstate"}

\* C38: the plugin state is always COMMISSIONED or DECOMMISSIONING, never
\* DECOMMISSIONED; commissionstate never reports "Node already
\* decommissioned." and no command fails with "FATAL: INVALID_STATE".
C38_NeverDecommissioned ==
    /\ ds.state \in {COMMISSIONED, DECOMMISSIONING}
    /\ DecommCommandRan =>
        /\ Val(last_op.result).msg # "Node already decommissioned."
        /\ Val(last_op.result).msg # "FATAL: INVALID_STATE"
        /\ Val(last_op.result).kind = "error" =>
               Val(last_op.result).msg \in {"Decommissioning already in progress", "Node still active."}

\* commissionstate reports a decommission in progress after the listpeers
\* reply of the decommission command that started it has been handled.
C38_Witness ==
    /\ last_op.name = "json_commissionstate"
    /\ Val(last_op.result).msg = "Decommissioning in progress."
    /\ ds.state = DECOMMISSIONING
    /\ \E c \in 1..MaxDecomm :
        /\ decomm_cmds[c].pc = "completed"
        /\ decomm_cmds[c].results # << >>
        /\ decomm_cmds[c].results[1].kind = "success"
        /\ ~decomm_cmds[c].listpeers

====
